---------------------------- MODULE Spec2Model ----------------------------
(***************************************************************************)
(* Storage core of the dex identity provider (etcd and MongoDB backends):  *)
(* session keys, sessions, refresh tokens, private key sets and users.     *)
(* Every store operation is a sequence of backend calls; each backend call *)
(* is one atomic step, so concurrent callers interleave between the calls. *)
(***************************************************************************)
EXTENDS Integers, Sequences, FiniteSets, TLC

(***************************************************************************)
(* Bounds of the model.                                                    *)
(***************************************************************************)
NProcs == 2
MaxClock == 3
MaxTTL == 1
MaxPush == 1
MaxTokens == 1

(***************************************************************************)
(* Time.  The clock counts ticks of half a second; time.Time.Unix() and    *)
(* Duration.Seconds() truncated to int64 drop the sub-second part.         *)
(***************************************************************************)
TicksPerSecond == 2
ClockStart == 2
ZeroTime == 0

Unix(t) == t \div TicksPerSecond
Seconds(d) == d \div TicksPerSecond

Procs == 1..NProcs
Keys == {"k1", "k2"}
SessionIDs == {"s1", "s2"}
TTLs == 0..MaxTTL
Backends == {"etcd", "mongo"}

(***************************************************************************)
(* Error values, as the code and the client libraries return them.         *)
(***************************************************************************)
ErrInvalidSessionKey == "invalid session key"
ErrSessionNotExist == "session does not exist"
ErrFailedToPop == "failed to pop entity"
ErrEtcdKeyNotFound == "etcd: Key not found"
ErrEtcdNodeExist == "etcd: Key already exists"
ErrMgoNotFound == "mgo: not found"

Ok(v) == [done |-> TRUE, ok |-> TRUE, val |-> v, err |-> ""]
Fail(e) == [done |-> TRUE, ok |-> FALSE, val |-> "", err |-> e]
NoRes == [done |-> FALSE, ok |-> FALSE, val |-> "", err |-> ""]

VARIABLES
    driver,            \* the backend the deployment's db.Driver was built for
    clock,             \* clockwork.Clock shared by the repos, in ticks
    etcdSessionKeys,   \* etcd nodes under SessionKeyDirectory: key -> node
    mongoSessionKeys,  \* documents of SessionKeyCollection, in natural order
    skProc,            \* the callers of sessionKeyRepo.Pop
    skPushed,          \* history: the successful Push calls per backend
    refreshTokens,     \* refresh-token records of the backend: token ID -> record
    objectIdCounter,   \* the counter behind NewRefreshTokenId / bson.NewObjectId
    rtProc,            \* the callers of refreshTokenRepo.Verify and Revoke
    rtIssued,          \* history: the tokens Create returned, with their owners
    rtLastCreate,      \* the last Create call and what it returned
    keyBlobs,          \* the stored key-set blobs: the etcd KeyFile node, or the
                       \* documents of KeyCollection in natural order
    ksProc,            \* the callers of the private key set repo
    ksLastSet,         \* history: the last Set call that returned
    mongoUsers,        \* documents of UserCollection, in natural order
    usProc,            \* the callers of the user repo
    etcdSessions,      \* etcd nodes under SessionDirectory: id -> sessionModel
    mongoSessions,     \* documents of SessionCollection: _id -> document
    seLast,            \* the last call on the session repo and what it returned
    seWritten,         \* per session ID, the last write that succeeded
    clientIdentities,  \* client identity records of the backend: ID -> model
    clIssued,          \* history: per client ID, the credentials New returned
    clLast,            \* the last call on the client repo and what it returned
    etcdAdminKeys,     \* etcd nodes under the client admin directory: ID -> value
    clAdminSet,        \* history: per client ID, the flag of its last SetDexAdmin
    nkLast,            \* history: the last NewPrivateKeySetRepo call and its result
    usRemoved,         \* history: the remote identities removed and not added since
    usListing,         \* history: the pages of the List calls since the last write
    apiLast            \* history: the last request of the user management
                       \* server and what its handling did

skVars == <<etcdSessionKeys, mongoSessionKeys, skProc, skPushed>>
rtVars == <<refreshTokens, objectIdCounter, rtProc, rtIssued, rtLastCreate>>
ksVars == <<keyBlobs, ksProc, ksLastSet>>
usVars == <<mongoUsers, usProc>>
seVars == <<etcdSessions, mongoSessions, seLast, seWritten>>
clVars == <<clientIdentities, clIssued, clLast, etcdAdminKeys, clAdminSet>>
nkVars == <<nkLast>>
uhVars == <<usRemoved, usListing>>
apVars == <<apiLast>>
vars == <<driver, clock, skVars, rtVars, ksVars, usVars, seVars, clVars, nkVars, uhVars,
          apVars>>

\* The variables each store's actions leave alone.
nonSkVars == <<driver, rtVars, ksVars, usVars, seVars, clVars, nkVars,
               uhVars, apVars>>
nonRtVars == <<driver, clock, skVars, ksVars, usVars, seVars, clVars, nkVars,
               uhVars, apVars>>
nonKsVars == <<driver, clock, skVars, rtVars, usVars, seVars, clVars, nkVars,
               uhVars, apVars>>
nonUsVars == <<driver, clock, skVars, rtVars, ksVars, seVars, clVars, nkVars,
               apVars>>
nonApVars == <<driver, clock, skVars, rtVars, ksVars, seVars, clVars, nkVars>>
nonSeVars == <<driver, skVars, rtVars, ksVars, usVars, clVars, nkVars,
               uhVars, apVars>>
nonClVars == <<driver, clock, skVars, rtVars, ksVars, usVars, seVars, nkVars,
               uhVars, apVars>>
nonNkVars == <<driver, clock, skVars, rtVars, ksVars, usVars, seVars, clVars,
               uhVars, apVars>>

(***************************************************************************)
(* Session keys.                                                           *)
(***************************************************************************)
\* sessionKeyModel of the etcd backend: ExpiresAt is Unix seconds.
EtcdSessionKeyModel(key, sid, exp, stale) ==
    [Key |-> key, SessionID |-> sid, ExpiresAt |-> exp, Stale |-> stale]

\* A MongoDB document is a function from the fields it has to their values;
\* decoding a document into a struct leaves the zero value for a missing field.
Field(doc, f, zero) == IF f \in DOMAIN doc THEN doc[f] ELSE zero

MongoSessionKeyModel(doc) ==
    [Key |-> Field(doc, "key", ""),
     SessionID |-> Field(doc, "session_id", ""),
     ExpiresAt |-> Field(doc, "expires_at", ZeroTime),
     Stale |-> Field(doc, "stale", FALSE)]

ZeroSKM == EtcdSessionKeyModel("", "", 0, FALSE)
NoPush == [n |-> 0, sid |-> "", exp |-> 0]
IdleSK == [pc |-> "idle", b |-> "", key |-> "", skm |-> ZeroSKM,
           pushes |-> 0, sid |-> "", late |-> FALSE, prior |-> FALSE,
           pre |-> <<>>, post |-> <<>>, res |-> NoRes]
EmptyMap == [k \in {} |-> 0]

\* Indexes of the documents matching a selector, given as a predicate.
Matching(coll, Sel(_)) == {i \in 1..Len(coll) : Sel(coll[i])}
First(S) == CHOOSE i \in S : \A j \in S : i <= j
Min(a, b) == IF a < b THEN a ELSE b
RemoveAt(coll, i) == SubSeq(coll, 1, i - 1) \o SubSeq(coll, i + 1, Len(coll))
RECURSIVE Pick(_, _)
Pick(coll, S) ==
    IF S = {} THEN <<>> ELSE <<coll[First(S)]>> \o Pick(coll, S \ {First(S)})

\* cc.Find(bson.M{"key": key})
SessionKeyByKey(coll, key) ==
    Matching(coll, LAMBDA d : "key" \in DOMAIN d /\ d["key"] = key)

\* The selector of Pop's update: bson.M{"stale": false, "key": key}
PopSelector(coll, key) ==
    Matching(coll, LAMBDA d : /\ "key" \in DOMAIN d /\ d["key"] = key
                              /\ "stale" \in DOMAIN d /\ d["stale"] = FALSE)

\* The update document of Pop, bson.M{"stale": true}, has no $ operator:
\* MongoDB replaces the matched document by it (the _id is kept).
PopUpdateDoc == [stale |-> TRUE]

\* skm.Stale || skm.ExpiresAt < r.clock.Now().Unix()
EtcdRejectsNoStale(skm, now) == skm.ExpiresAt < Unix(now)

EtcdRejects(skm, now) == skm.Stale \/ skm.ExpiresAt < Unix(now)

\* skm.Stale || skm.ExpiresAt.Before(r.clock.Now())
MongoRejects(skm, now) == skm.Stale \/ skm.ExpiresAt < now

\* History: what is stored for a key, as the records a reader would decode.
EtcdStored(nodes, key) ==
    IF key \in DOMAIN nodes THEN <<nodes[key].value>> ELSE <<>>

MongoStored(coll, key) ==
    LET docs == Pick(coll, SessionKeyByKey(coll, key))
    IN [i \in 1..Len(docs) |-> MongoSessionKeyModel(docs[i])]

\* History: a Pop of this key on this backend has already succeeded.
PoppedBefore(b, key) ==
    \E q \in Procs : skProc[q].b = b /\ skProc[q].key = key /\ skProc[q].res.ok

\* The callers are interchangeable: they are numbered in the order they call.
InOrder(p) == \A q \in Procs : q < p => skProc[q].pc # "idle"

StartPop(p, b, key) ==
    [skProc[p] EXCEPT !.b = b, !.key = key,
                      !.pushes = skPushed[b][key].n,
                      !.sid = skPushed[b][key].sid,
                      !.late = clock > skPushed[b][key].exp,
                      !.prior = PoppedBefore(b, key),
                      !.pre = IF b = "etcd" THEN EtcdStored(etcdSessionKeys, key)
                              ELSE MongoStored(mongoSessionKeys, key)]

\* First backend call of Pop on etcd: r.get(key), then the stale/expiry test.
EtcdPopGet(p, key) ==
    /\ driver = "etcd"
    /\ skProc[p].pc = "idle"
    /\ InOrder(p)
    /\ LET started == StartPop(p, "etcd", key)
       IN IF key \notin DOMAIN etcdSessionKeys
          THEN skProc' = [skProc EXCEPT ![p] =
                   [started EXCEPT !.pc = "done", !.post = started.pre,
                                   !.res = Fail(ErrEtcdKeyNotFound)]]
          ELSE LET skm == etcdSessionKeys[key].value
               IN IF EtcdRejects(skm, clock)
                  THEN skProc' = [skProc EXCEPT ![p] =
                           [started EXCEPT !.pc = "done", !.skm = skm,
                                           !.post = started.pre,
                                           !.res = Fail(ErrInvalidSessionKey)]]
                  ELSE skProc' = [skProc EXCEPT ![p] =
                           [started EXCEPT !.pc = "write", !.skm = skm]]
    /\ UNCHANGED <<clock, etcdSessionKeys, mongoSessionKeys, skPushed>>
    /\ UNCHANGED nonSkVars

\* Second backend call of Pop on etcd: kAPI.Set(key, skm with Stale = true,
\* PrevExist).  The value written is the one read by r.get; the TTL is not
\* given again, so the node becomes permanent.
EtcdPopSet(p) ==
    /\ driver = "etcd"
    /\ skProc[p].pc = "write"
    /\ skProc[p].b = "etcd"
    /\ LET skm == [skProc[p].skm EXCEPT !.Stale = TRUE]
       IN IF skm.Key \in DOMAIN etcdSessionKeys
          THEN /\ etcdSessionKeys' = [etcdSessionKeys EXCEPT ![skm.Key] =
                                         [value |-> skm, ttl |-> FALSE, expiry |-> 0]]
               /\ skProc' = [skProc EXCEPT ![p].pc = "done",
                                           ![p].post = <<skm>>,
                                           ![p].res = Ok(skm.SessionID)]
          ELSE /\ UNCHANGED etcdSessionKeys
               /\ skProc' = [skProc EXCEPT ![p].pc = "done",
                                           ![p].post = <<>>,
                                           ![p].res = Fail(ErrEtcdKeyNotFound)]
    /\ UNCHANGED <<clock, mongoSessionKeys, skPushed>>
    /\ UNCHANGED nonSkVars

\* First backend call of Pop on MongoDB: Find({"key": key}).One(&skm), then
\* the stale/expiry test.
MongoPopFind(p, key) ==
    /\ driver = "mongo"
    /\ skProc[p].pc = "idle"
    /\ InOrder(p)
    /\ LET started == StartPop(p, "mongo", key)
           found == SessionKeyByKey(mongoSessionKeys, key)
       IN IF found = {}
          THEN skProc' = [skProc EXCEPT ![p] =
                   [started EXCEPT !.pc = "done", !.post = started.pre,
                                   !.res = Fail(ErrMgoNotFound)]]
          ELSE LET skm == MongoSessionKeyModel(mongoSessionKeys[First(found)])
               IN IF MongoRejects(skm, clock)
                  THEN skProc' = [skProc EXCEPT ![p] =
                           [started EXCEPT !.pc = "done", !.skm = skm,
                                           !.post = started.pre,
                                           !.res = Fail(ErrInvalidSessionKey)]]
                  ELSE skProc' = [skProc EXCEPT ![p] =
                           [started EXCEPT !.pc = "write", !.skm = skm]]
    /\ UNCHANGED <<clock, etcdSessionKeys, mongoSessionKeys, skPushed>>
    /\ UNCHANGED nonSkVars

\* cc.UpdateAll in place of cc.Update: no error when nothing matched.
MongoPopUpdateAll(p) ==
    /\ driver = "mongo"
    /\ skProc[p].pc = "write"
    /\ skProc[p].b = "mongo"
    /\ LET hit == PopSelector(mongoSessionKeys, skProc[p].key)
       IN /\ mongoSessionKeys' =
               [i \in 1..Len(mongoSessionKeys) |->
                  IF i \in hit THEN PopUpdateDoc ELSE mongoSessionKeys[i]]
          /\ skProc' = [skProc EXCEPT
                 ![p].pc = "done",
                 ![p].post = MongoStored(mongoSessionKeys', skProc[p].key),
                 ![p].res = Ok(skProc[p].skm.SessionID)]
    /\ UNCHANGED <<clock, etcdSessionKeys, skPushed>>
    /\ UNCHANGED nonSkVars

\* Second backend call of Pop on MongoDB:
\* cc.Update(bson.M{"stale": false, "key": key}, bson.M{"stale": true})
MongoPopUpdate(p) ==
    /\ driver = "mongo"
    /\ skProc[p].pc = "write"
    /\ skProc[p].b = "mongo"
    /\ LET hit == PopSelector(mongoSessionKeys, skProc[p].key)
       IN IF hit = {}
          THEN /\ UNCHANGED mongoSessionKeys
               /\ skProc' = [skProc EXCEPT
                      ![p].pc = "done",
                      ![p].post = MongoStored(mongoSessionKeys, skProc[p].key),
                      ![p].res = Fail(ErrFailedToPop)]
          ELSE /\ mongoSessionKeys' =
                      [mongoSessionKeys EXCEPT ![First(hit)] = PopUpdateDoc]
               /\ skProc' = [skProc EXCEPT
                      ![p].pc = "done",
                      ![p].post = MongoStored(mongoSessionKeys', skProc[p].key),
                      ![p].res = Ok(skProc[p].skm.SessionID)]
    /\ UNCHANGED <<clock, etcdSessionKeys, skPushed>>
    /\ UNCHANGED nonSkVars

RECURSIVE PushSum(_, _)
PushSum(b, S) ==
    IF S = {} THEN 0
    ELSE LET k == CHOOSE x \in S : TRUE
         IN skPushed[b][k].n + PushSum(b, S \ {k})

PushCount(b) == PushSum(b, Keys)

\* Push on etcd: one kAPI.Set with PrevNoExist and TTL exp.  The etcd client
\* sends the TTL in whole seconds, and only when it is positive.  When the
\* node exists the Set fails and nothing is written.
EtcdPushSet(key, sid, exp) ==
    /\ driver = "etcd"
    /\ IF key \in DOMAIN etcdSessionKeys
       THEN UNCHANGED <<etcdSessionKeys, skPushed>>
       ELSE /\ etcdSessionKeys' =
                 [k \in DOMAIN etcdSessionKeys \cup {key} |->
                    IF k = key
                    THEN [value |-> EtcdSessionKeyModel(
                                        key, sid, Unix(clock) + Seconds(exp), FALSE),
                          ttl |-> exp > 0,
                          expiry |-> clock + Seconds(exp) * TicksPerSecond]
                    ELSE etcdSessionKeys[k]]
            /\ skPushed' = [skPushed EXCEPT !["etcd"][key] =
                               [n |-> @.n + 1, sid |-> sid, exp |-> clock + exp]]
    /\ UNCHANGED <<clock, mongoSessionKeys, skProc>>
    /\ UNCHANGED nonSkVars

\* Push on MongoDB: cc.Insert(skm).  The model has no _id field, so the
\* driver assigns a new ObjectId and the insert never collides.
MongoPushInsert(key, sid, exp) ==
    /\ driver = "mongo"
    /\ mongoSessionKeys' =
         Append(mongoSessionKeys,
                [key |-> key, session_id |-> sid,
                 expires_at |-> clock + exp, stale |-> FALSE])
    /\ skPushed' = [skPushed EXCEPT !["mongo"][key] =
                       [n |-> @.n + 1, sid |-> sid, exp |-> clock + exp]]
    /\ UNCHANGED <<clock, etcdSessionKeys, skProc>>
    /\ UNCHANGED nonSkVars

\* The histories have MaxPush calls of Push at most.
EtcdPush(key, sid, exp) ==
    PushCount("etcd") < MaxPush /\ EtcdPushSet(key, sid, exp)
MongoPush(key, sid, exp) ==
    PushCount("mongo") < MaxPush /\ MongoPushInsert(key, sid, exp)

\* etcd deletes a node whose TTL has run out.
EtcdExpireSessionKey(key) ==
    /\ driver = "etcd"
    /\ key \in DOMAIN etcdSessionKeys
    /\ etcdSessionKeys[key].ttl
    /\ etcdSessionKeys[key].expiry <= clock
    /\ etcdSessionKeys' = [k \in DOMAIN etcdSessionKeys \ {key} |-> etcdSessionKeys[k]]
    /\ UNCHANGED <<clock, mongoSessionKeys, skProc, skPushed>>
    /\ UNCHANGED nonSkVars

\* The TTL index on expires_at (ExpireAfter 0) deletes a document whose
\* expires_at lies in the past.
MongoExpireSessionKey(i) ==
    /\ driver = "mongo"
    /\ i \in 1..Len(mongoSessionKeys)
    /\ "expires_at" \in DOMAIN mongoSessionKeys[i]
    /\ mongoSessionKeys[i]["expires_at"] < clock
    /\ mongoSessionKeys' = RemoveAt(mongoSessionKeys, i)
    /\ UNCHANGED <<clock, etcdSessionKeys, skProc, skPushed>>
    /\ UNCHANGED nonSkVars

\* Time passes.
TickSK ==
    /\ clock < MaxClock
    /\ clock' = clock + 1
    /\ UNCHANGED skVars
    /\ UNCHANGED nonSkVars

InitSK ==
    /\ etcdSessionKeys = EmptyMap
    /\ mongoSessionKeys = <<>>
    /\ skProc = [p \in Procs |-> IdleSK]
    /\ skPushed = [b \in Backends |-> [k \in Keys |-> NoPush]]

(***************************************************************************)
(* Refresh tokens.                                                         *)
(***************************************************************************)
Users == {"u1", "u2"}
Clients == {"c1", "c2"}
Payloads == {"x", "y"}

ErrorInvalidToken == "invalid token"
ErrorInvalidUserID == "invalid user ID"
ErrorInvalidClientID == "invalid client ID"
ErrJSONUnmarshal == "unexpected end of JSON input"
ErrStorageFailure == "storage failure"

\* A token is a string; the model keeps it as the sequence of its pieces: the
\* token ID, the delimiter (refresh.TokenDelimer) and the base64 text of the
\* payload.  hex tells whether an ID piece is a 24-digit hex string.
IdPiece(id) == [t |-> "id", v |-> id, hex |-> TRUE]
DelimPiece == [t |-> "delim", v |-> 0, hex |-> FALSE]
B64Piece(payload) == [t |-> "b64", v |-> payload, hex |-> FALSE]
\* An ID text that is no 24-digit hex string, and text that is not base64.
TextPiece == [t |-> "id", v |-> 0, hex |-> FALSE]
RawPiece == [t |-> "raw", v |-> 0, hex |-> FALSE]

\* bcrypt.GenerateFromPassword / bcrypt.CompareHashAndPassword
BcryptHash(secret) == [bcrypt |-> secret]
BcryptMatches(hash, secret) == hash = BcryptHash(secret)

\* buildToken with the payload written as it is, not in base64
BuildTokenRaw(tokenID, tokenPayload) == <<IdPiece(tokenID), DelimPiece, RawPiece>>

\* buildToken: tokenID, delimiter, base64.URLEncoding of the payload.
BuildToken(tokenID, tokenPayload) ==
    <<IdPiece(tokenID), DelimPiece, B64Piece(tokenPayload)>>

\* strings.SplitN(token, refresh.TokenDelimer, 2)
SplitN2(token) ==
    LET delims == {i \in 1..Len(token) : token[i].t = "delim"}
    IN IF delims = {} THEN <<token>>
       ELSE <<SubSeq(token, 1, First(delims) - 1),
              SubSeq(token, First(delims) + 1, Len(token))>>

\* base64.URLEncoding.DecodeString succeeds on base64 text only.
IsBase64(part) == Len(part) <= 1 /\ \A i \in 1..Len(part) : part[i].t = "b64"
Base64Decode(part) == IF Len(part) = 0 THEN "" ELSE part[1].v

\* The empty ID text: r.key("") is the RefreshTokenDirectory itself.
EmptyID == -1

\* The token ID a part spells: an ID piece, the empty text, or the text of
\* anything else.
PartID(part) ==
    IF Len(part) = 1 /\ part[1].t = "id" THEN part[1].v
    ELSE IF part = <<>> THEN EmptyID
    ELSE 0

\* bson.IsObjectIdHex(parts[0])
IsObjectIdHex(part) == Len(part) = 1 /\ part[1].t = "id" /\ part[1].hex

\* parseToken of the etcd backend: any ID text is accepted.
EtcdParseToken(token) ==
    LET parts == SplitN2(token)
    IN IF Len(parts) # 2 THEN [err |-> ErrorInvalidToken, id |-> 0, payload |-> ""]
       ELSE IF ~IsBase64(parts[2])
            THEN [err |-> ErrorInvalidToken, id |-> 0, payload |-> ""]
            ELSE [err |-> "", id |-> PartID(parts[1]),
                  payload |-> Base64Decode(parts[2])]

\* parseToken of the MongoDB backend: the ID must be an ObjectId in hex.
MongoParseToken(token) ==
    LET parts == SplitN2(token)
    IN IF Len(parts) # 2 THEN [err |-> ErrorInvalidToken, id |-> 0, payload |-> ""]
       ELSE IF ~IsObjectIdHex(parts[1])
            THEN [err |-> ErrorInvalidToken, id |-> 0, payload |-> ""]
            ELSE IF ~IsBase64(parts[2])
                 THEN [err |-> ErrorInvalidToken, id |-> 0, payload |-> ""]
                 ELSE [err |-> "", id |-> PartID(parts[1]),
                       payload |-> Base64Decode(parts[2])]

ParseToken(token) ==
    IF driver = "etcd" THEN EtcdParseToken(token) ELSE MongoParseToken(token)

\* checkTokenPayload
CheckTokenPayload(payloadHash, payload) ==
    IF BcryptMatches(payloadHash, payload) THEN "" ELSE ErrorInvalidToken

\* The error of a delete of a record that is not there: etcd's Key not found
\* from kAPI.Delete, mgo.ErrNotFound from RemoveId.
DeleteMissingError == IF driver = "etcd" THEN ErrEtcdKeyNotFound ELSE ErrMgoNotFound

NoRecord == [ID |-> 0, PayloadHash |-> BcryptHash(""), UserID |-> "", ClientID |-> ""]
IdleRT == [pc |-> "idle", op |-> "", token |-> <<>>, arg |-> "",
           record |-> NoRecord, prior |-> FALSE, res |-> NoRes]

\* etcd keeps the directory of the records once a record was created in it.
EtcdRefreshDirectoryExists == rtIssued # <<>>

\* The load of the record by token ID.  etcd: r.get maps key-not-found to
\* InvalidToken; kAPI.Get of the directory (the empty ID) returns its node,
\* whose empty value json.Unmarshal refuses.  MongoDB: any error of
\* FindId(tokenID).One becomes InvalidToken.
LoadRecord(id) ==
    IF driver = "etcd" /\ id = EmptyID /\ EtcdRefreshDirectoryExists
    THEN [err |-> ErrJSONUnmarshal, record |-> NoRecord]
    ELSE IF id \notin DOMAIN refreshTokens
    THEN [err |-> ErrorInvalidToken, record |-> NoRecord]
    ELSE [err |-> "", record |-> refreshTokens[id]]

\* History: a Revoke of the record this token names has already succeeded.
RevokedBefore(token) ==
    \E q \in Procs : /\ rtProc[q].op = "Revoke" /\ rtProc[q].res.ok
                     /\ ParseToken(rtProc[q].token).id = ParseToken(token).id

\* record.ClientID != clientID, with the operands the same
ClientMismatchNever(record, clientID) == FALSE

\* record.ClientID != clientID
ClientMismatch(record, clientID) == record.ClientID # clientID

\* record.UserID != userID, with the test left out
UserMismatchNever(record, userID) == FALSE

\* record.UserID != userID
UserMismatch(record, userID) == record.UserID # userID

InOrderRT(p) == \A q \in Procs : q < p => rtProc[q].pc # "idle"

\* The tokens a caller can present: the ones Create returned, each of them
\* with another payload, and malformed ones: a payload that is not base64, no
\* delimiter, an empty ID, an ID of another format, an ID never issued.
IssuedTokens == {rtIssued[i].token : i \in 1..Len(rtIssued)}
WellFormed ==
    IssuedTokens \cup
    {<<t[1], t[2], B64Piece(x)>> : t \in IssuedTokens, x \in Payloads}
\* Revoke is called with the well-formed tokens and one malformed token.
Revocable == WellFormed \cup {<<IdPiece(1), B64Piece("x")>>}
Presentable ==
    WellFormed \cup
    {<<IdPiece(1), DelimPiece, RawPiece>>,
     <<IdPiece(1), B64Piece("x")>>,
     <<DelimPiece, B64Piece("x")>>,
     <<TextPiece, DelimPiece, B64Piece("x")>>,
     <<IdPiece(MaxTokens + 1), DelimPiece, B64Piece("x")>>}

\* Create: the two ID checks, a new payload and ID, one insert.
\* NewRefreshTokenId and bson.NewObjectId never repeat an ID.
Create(userID, clientID, tokenPayload) ==
    /\ objectIdCounter < MaxTokens
    /\ userID # ""
    /\ clientID # ""
    /\ LET tokenID == objectIdCounter + 1
       IN /\ objectIdCounter' = tokenID
          /\ refreshTokens' =
               [id \in DOMAIN refreshTokens \cup {tokenID} |->
                  IF id = tokenID
                  THEN [ID |-> tokenID, PayloadHash |-> BcryptHash(tokenPayload),
                        UserID |-> userID, ClientID |-> clientID]
                  ELSE refreshTokens[id]]
          /\ rtIssued' = Append(rtIssued,
                                [token |-> BuildToken(tokenID, tokenPayload),
                                 user |-> userID, client |-> clientID])
          /\ rtLastCreate' = [called |-> TRUE, token |-> BuildToken(tokenID, tokenPayload),
                              err |-> "", stored |-> TRUE]
    /\ UNCHANGED rtProc
    /\ UNCHANGED nonRtVars

\* Create when the backend fails the insert: etcd's Create returns the error
\* of r.insert; MongoDB's Create returns "", nil.
CreateInsertFails(userID, clientID, tokenPayload) ==
    /\ objectIdCounter < MaxTokens
    /\ userID # ""
    /\ clientID # ""
    /\ objectIdCounter' = objectIdCounter + 1
    /\ rtLastCreate' = [called |-> TRUE, token |-> <<>>,
                        err |-> IF driver = "etcd" THEN ErrStorageFailure ELSE "",
                        stored |-> FALSE]
    /\ UNCHANGED <<refreshTokens, rtProc, rtIssued>>
    /\ UNCHANGED nonRtVars

\* What Verify returns on the records as they are: parse, load, the clientID
\* test, the payload test.
VerifyResult(clientID, token) ==
    LET parsed == ParseToken(token)
    IN IF parsed.err # "" THEN Fail(parsed.err)
       ELSE IF LoadRecord(parsed.id).err # "" THEN Fail(LoadRecord(parsed.id).err)
       ELSE LET record == LoadRecord(parsed.id).record
            IN IF ClientMismatch(record, clientID) THEN Fail(ErrorInvalidClientID)
               ELSE IF CheckTokenPayload(record.PayloadHash, parsed.payload) # ""
               THEN Fail(CheckTokenPayload(record.PayloadHash, parsed.payload))
               ELSE Ok(record.UserID)

\* Verify that uses the token up: a successful Verify removes the record
VerifyConsuming(p, clientID, token) ==
    /\ rtProc[p].pc = "idle"
    /\ InOrderRT(p)
    /\ rtProc' = [rtProc EXCEPT ![p] =
                     [IdleRT EXCEPT !.pc = "done", !.op = "Verify", !.token = token,
                                    !.arg = clientID,
                                    !.prior = RevokedBefore(token),
                                    !.res = VerifyResult(clientID, token)]]
    /\ refreshTokens' =
           IF VerifyResult(clientID, token).ok
           THEN [i \in DOMAIN refreshTokens \ {ParseToken(token).id} |-> refreshTokens[i]]
           ELSE refreshTokens
    /\ UNCHANGED <<objectIdCounter, rtIssued, rtLastCreate>>
    /\ UNCHANGED nonRtVars

\* Verify makes one backend call, the load of the record.
Verify(p, clientID, token) ==
    /\ rtProc[p].pc = "idle"
    /\ InOrderRT(p)
    /\ rtProc' = [rtProc EXCEPT ![p] =
                     [IdleRT EXCEPT !.pc = "done", !.op = "Verify", !.token = token,
                                    !.arg = clientID,
                                    !.prior = RevokedBefore(token),
                                    !.res = VerifyResult(clientID, token)]]
    /\ UNCHANGED <<refreshTokens, objectIdCounter, rtIssued, rtLastCreate>>
    /\ UNCHANGED nonRtVars

\* First backend call of Revoke: parse, load the record, the userID test and
\* the payload test.
RevokeGet(p, userID, token) ==
    /\ rtProc[p].pc = "idle"
    /\ InOrderRT(p)
    /\ LET parsed == ParseToken(token)
           started == [IdleRT EXCEPT !.op = "Revoke", !.token = token, !.arg = userID,
                                     !.prior = RevokedBefore(token)]
           failed(e) == [started EXCEPT !.pc = "done", !.res = Fail(e)]
       IN rtProc' = [rtProc EXCEPT ![p] =
            IF parsed.err # "" THEN failed(parsed.err)
            ELSE IF LoadRecord(parsed.id).err # "" THEN failed(LoadRecord(parsed.id).err)
            ELSE LET record == LoadRecord(parsed.id).record
                 IN IF UserMismatch(record, userID) THEN failed(ErrorInvalidUserID)
                    ELSE IF CheckTokenPayload(record.PayloadHash, parsed.payload) # ""
                    THEN failed(CheckTokenPayload(record.PayloadHash, parsed.payload))
                    ELSE [started EXCEPT !.pc = "delete", !.record = record]]
    /\ UNCHANGED <<refreshTokens, objectIdCounter, rtIssued, rtLastCreate>>
    /\ UNCHANGED nonRtVars

\* Revoke that returns success without the delete
RevokeDeleteKeeps(p) ==
    /\ rtProc[p].pc = "delete"
    /\ rtProc' = [rtProc EXCEPT ![p].pc = "done", ![p].res = Ok("")]
    /\ UNCHANGED <<refreshTokens, objectIdCounter, rtIssued, rtLastCreate>>
    /\ UNCHANGED nonRtVars

\* Second backend call of Revoke: kAPI.Delete / RemoveId of the loaded
\* record; its error is returned as it is.
RevokeDelete(p) ==
    /\ rtProc[p].pc = "delete"
    /\ LET id == rtProc[p].record.ID
       IN IF id \in DOMAIN refreshTokens
          THEN /\ refreshTokens' =
                    [i \in DOMAIN refreshTokens \ {id} |-> refreshTokens[i]]
               /\ rtProc' = [rtProc EXCEPT ![p].pc = "done", ![p].res = Ok("")]
          ELSE /\ UNCHANGED refreshTokens
               /\ rtProc' = [rtProc EXCEPT ![p].pc = "done",
                                           ![p].res = Fail(DeleteMissingError)]
    /\ UNCHANGED <<objectIdCounter, rtIssued, rtLastCreate>>
    /\ UNCHANGED nonRtVars

InitRT ==
    /\ refreshTokens = EmptyMap
    /\ objectIdCounter = 0
    /\ rtProc = [p \in Procs |-> IdleRT]
    /\ rtIssued = <<>>
    /\ rtLastCreate = [called |-> FALSE, token |-> <<>>, err |-> "", stored |-> FALSE]

\* The arguments of Create and the payload it generates.  The names of users,
\* clients and payloads are interchangeable, so the first Create is taken to
\* be for u1 and c1 with payload x.
CreateArgs ==
    IF objectIdCounter = 0 THEN {<<"u1", "c1", "x">>}
    ELSE Users \X Clients \X Payloads

\* Concurrent callers of the refresh-token repo.
NextRT ==
    \/ \E a \in CreateArgs : Create(a[1], a[2], a[3])
    \/ \E p \in Procs, c \in Clients, t \in Presentable : Verify(p, c, t)
    \/ \E p \in Procs, u \in Users, t \in Revocable : RevokeGet(p, u, t)
    \/ \E p \in Procs : RevokeDelete(p)

\* The same callers on a backend that may fail the insert of Create.
NextRTFail ==
    \/ NextRT
    \/ \E a \in CreateArgs : CreateInsertFails(a[1], a[2], a[3])

(***************************************************************************)
(* Private key sets.                                                       *)
(***************************************************************************)
ErrorNoKeys == "no keys"
ErrorCannotDecryptKeys == "cannot decrypt keys"
ErrorCast == "unable to cast to PrivateKeySet"

\* A key.PrivateKeySet: its keys in order and its expiry.
NoKeySet == [keys |-> <<>>, expiresAt |-> ZeroTime]
PrivateKeySets == {[keys |-> <<"a">>, expiresAt |-> 8],
                   [keys |-> <<"b", "c">>, expiresAt |-> 9]}
\* A key.KeySet that is not a *key.PrivateKeySet.
PublicKeySet == [keys |-> <<"pub">>, expiresAt |-> ZeroTime]

\* The repos in use: the key secrets and useOldFormat.  The MongoDB driver
\* does not keep useOldFormatKeySecrets: its repo always has the new format.
Repos == {[secrets |-> <<"A">>, useOldFormat |-> FALSE],
          [secrets |-> <<"B", "A">>, useOldFormat |-> FALSE],
          [secrets |-> <<"C">>, useOldFormat |-> FALSE],
          [secrets |-> <<"A">>, useOldFormat |-> TRUE]}

UsesOldFormat(r) == driver = "etcd" /\ r.useOldFormat

\* r.active()
Active(r) == r.secrets[1]

\* json.Marshal of newPrivateKeySetModel(pks), then pcrypto.AESEncrypt or
\* pcrypto.Encrypt under the active secret.
EncryptKeySet(r, pks) ==
    [json |-> [Keys |-> pks.keys, ExpiresAt |-> pks.expiresAt],
     secret |-> Active(r), oldFormat |-> UsesOldFormat(r)]

\* pcrypto.AESDecrypt / pcrypto.Decrypt, json.Unmarshal, m.PrivateKeySet().
Decrypts(r, value, secret) ==
    value.secret = secret /\ value.oldFormat = UsesOldFormat(r)

\* The loop of Get trying r.secrets[0] only
DecryptKeySetFirst(r, value) ==
    IF ~Decrypts(r, value, r.secrets[1])
    THEN [done |-> TRUE, ok |-> FALSE, val |-> NoKeySet, err |-> ErrorCannotDecryptKeys]
    ELSE [done |-> TRUE, ok |-> TRUE,
          val |-> [keys |-> value.json.Keys, expiresAt |-> value.json.ExpiresAt],
          err |-> ""]

\* The loop of Get over r.secrets: the first secret that decrypts wins; err
\* is what the last secret tried left behind.
DecryptKeySet(r, value) ==
    LET good == {i \in 1..Len(r.secrets) : Decrypts(r, value, r.secrets[i])}
    IN IF good = {}
       THEN [done |-> TRUE, ok |-> FALSE, val |-> NoKeySet, err |-> ErrorCannotDecryptKeys]
       ELSE [done |-> TRUE, ok |-> TRUE,
             val |-> [keys |-> value.json.Keys, expiresAt |-> value.json.ExpiresAt],
             err |-> ""]

NoKsRes == [done |-> FALSE, ok |-> FALSE, val |-> NoKeySet, err |-> ""]
KsFail(e) == [done |-> TRUE, ok |-> FALSE, val |-> NoKeySet, err |-> e]
KsOk == [done |-> TRUE, ok |-> TRUE, val |-> NoKeySet, err |-> ""]
NoRepo == [secrets |-> <<>>, useOldFormat |-> FALSE]
\* No Set has returned yet.
NoSet == [called |-> FALSE, ok |-> FALSE, repo |-> NoRepo, ks |-> NoKeySet,
          prev |-> NoKeySet]
IdleKS == [pc |-> "idle", op |-> "", repo |-> NoRepo,
           ks |-> NoKeySet, old |-> <<>>, racing |-> FALSE, allowed |-> {},
           last |-> NoSet, res |-> NoKsRes]

\* What ksLastSet keeps of a Set that returns: its repo, its key set, whether
\* it succeeded, and the key set of the successful Set before it.
SetReturned(r, ks, ok) ==
    ksLastSet' = [called |-> TRUE, ok |-> ok, repo |-> r, ks |-> ks,
                  prev |-> IF ksLastSet.ok THEN ksLastSet.ks ELSE ksLastSet.prev]

InOrderKS(p) == \A q \in Procs : q < p => ksProc[q].pc # "idle"

\* Set without its first backend call: what is stored stays
KeySetNoDelete(p, r, ks) ==
    /\ ksProc[p].pc = "idle"
    /\ InOrderKS(p)
    /\ UNCHANGED keyBlobs
    /\ ksProc' = [ksProc EXCEPT ![p] =
          IF ks = PublicKeySet
          THEN [IdleKS EXCEPT !.pc = "done", !.op = "Set", !.res = KsFail(ErrorCast)]
          ELSE [IdleKS EXCEPT !.pc = "write", !.op = "Set", !.repo = r, !.ks = ks]]
    /\ IF ks = PublicKeySet THEN SetReturned(r, ks, FALSE) ELSE UNCHANGED ksLastSet
    /\ UNCHANGED nonKsVars

\* First backend call of Set: kAPI.Delete of the KeyFile / DropCollection,
\* its result ignored.  The cast of ks follows it: Set returns there when ks
\* is no *key.PrivateKeySet.
KeySetDelete(p, r, ks) ==
    /\ ksProc[p].pc = "idle"
    /\ InOrderKS(p)
    /\ keyBlobs' = <<>>
    /\ ksProc' = [ksProc EXCEPT ![p] =
          IF ks = PublicKeySet
          THEN [IdleKS EXCEPT !.pc = "done", !.op = "Set", !.res = KsFail(ErrorCast)]
          ELSE [IdleKS EXCEPT !.pc = "write", !.op = "Set", !.repo = r, !.ks = ks,
                              !.old = IF keyBlobs = <<>> THEN <<>>
                                       ELSE <<keyBlobs[1]>>]]
    /\ IF ks = PublicKeySet THEN SetReturned(r, ks, FALSE) ELSE UNCHANGED ksLastSet
    /\ UNCHANGED nonKsVars

\* Second backend call of Set: kAPI.Set of the KeyFile with PrevIgnore on
\* etcd, col.Insert of a new document on MongoDB.
KeySetWrite(p) ==
    /\ ksProc[p].pc = "write"
    /\ LET v == EncryptKeySet(ksProc[p].repo, ksProc[p].ks)
       IN keyBlobs' = IF driver = "etcd" THEN <<v>> ELSE Append(keyBlobs, v)
    /\ ksProc' = [ksProc EXCEPT ![p] =
                     [IdleKS EXCEPT !.pc = "done", !.op = "Set", !.res = KsOk]]
    /\ SetReturned(ksProc[p].repo, ksProc[p].ks, TRUE)
    /\ UNCHANGED nonKsVars

\* History for a Get: the Sets in progress that replace a stored key set
\* this repo can read by one this repo can read, and the key sets they allow
\* (old keeps the first stored blob the Set's delete removed).
Replacing(r) ==
    {q \in Procs : /\ ksProc[q].pc = "write"
                   /\ ksProc[q].old # <<>>
                   /\ DecryptKeySet(r, ksProc[q].old[1]).ok
                   /\ DecryptKeySet(r, EncryptKeySet(ksProc[q].repo, ksProc[q].ks)).ok}

\* Get: one read (kAPI.Get of the KeyFile, or Find(nil).All and its first
\* document), then the decryption.
KeyGet(p, r) ==
    /\ ksProc[p].pc = "idle"
    /\ InOrderKS(p)
    /\ ksProc' = [ksProc EXCEPT ![p] =
         [IdleKS EXCEPT
            !.pc = "done", !.op = "Get", !.repo = r,
            !.last = [NoSet EXCEPT !.called = ksLastSet.called, !.ok = ksLastSet.ok,
                                   !.repo = ksLastSet.repo, !.ks = ksLastSet.ks],
            !.racing = Replacing(r) # {},
            !.allowed = {DecryptKeySet(r, ksProc[q].old[1]).val : q \in Replacing(r)}
                        \cup {ksProc[q].ks : q \in Replacing(r)},
            !.res = IF keyBlobs = <<>> THEN KsFail(ErrorNoKeys)
                    ELSE DecryptKeySet(r, keyBlobs[1])]]
    /\ UNCHANGED <<keyBlobs, ksLastSet>>
    /\ UNCHANGED nonKsVars

\* A call that has returned leaves its caller free for the next call.
KeyReturn(p) ==
    /\ ksProc[p].pc = "done"
    /\ ksProc' = [ksProc EXCEPT ![p] = IdleKS]
    /\ UNCHANGED <<keyBlobs, ksLastSet>>
    /\ UNCHANGED nonKsVars

InitKS ==
    /\ keyBlobs = <<>>
    /\ ksProc = [p \in Procs |-> IdleKS]
    /\ ksLastSet = NoSet

\* Concurrent callers of the private key set repo.
NextKS ==
    \/ \E p \in Procs, r \in Repos, ks \in PrivateKeySets \cup {PublicKeySet} :
           KeySetDelete(p, r, ks)
    \/ \E p \in Procs : KeySetWrite(p)
    \/ \E p \in Procs, r \in Repos : KeyGet(p, r)
    \/ \E p \in Procs : KeyReturn(p)

(***************************************************************************)
(* Users (MongoDB).                                                        *)
(***************************************************************************)
ErrorNotFound == "user not found in repository"
ErrorInvalidID == "invalid ID"
ErrorInvalidEmail == "invalid email"
ErrorDuplicateID == "ID not available"
ErrorDuplicateEmail == "email not available"
ErrorDuplicateRemoteIdentity == "remote identity already in use for another user"
ErrMgoDuplicateKey == "mgo: E11000 duplicate key"

UserIDs == {"1", "2"}
Emails == {"a@x", "b@x", "bad"}
RemoteIdentities == {[ConnectorID |-> "c", ID |-> "r1"],
                     [ConnectorID |-> "c", ID |-> "r2"]}

\* user.ValidEmail
ValidEmail(email) == email \notin {"", "bad"}

\* The user.User values the callers pass.
UserValue(id, email) ==
    [ID |-> id, Email |-> email, EmailVerified |-> TRUE, DisplayName |-> "n",
     Admin |-> FALSE, Disabled |-> FALSE, CreatedAt |-> ClockStart]

\* newUserModel: RemoteIdentities stays nil and, being omitempty, is not
\* part of the document.
NewUserModel(u) ==
    [_id |-> u.ID, email |-> u.Email, email_verified |-> u.EmailVerified,
     display_name |-> u.DisplayName, disabled |-> u.Disabled, admin |-> u.Admin,
     created_at |-> u.CreatedAt]

\* newRemoteIdentity
NewRemoteIdentity(ri) == [connector_id |-> ri.ConnectorID, remote_id |-> ri.ID]

SetField(doc, f, v) == [x \in DOMAIN doc \cup {f} |-> IF x = f THEN v ELSE doc[x]]

\* c.FindId(id)
UserByID(coll, id) == Matching(coll, LAMBDA d : d["_id"] = id)

\* c.Find(bson.M{"email": email})
UserByEmail(coll, email) ==
    Matching(coll, LAMBDA d : "email" \in DOMAIN d /\ d["email"] = email)

\* c.Find(bson.M{"remote_identities": bson.M{"$elemMatch": newRemoteIdentity(ri)}})
UserByRemoteIdentity(coll, ri) ==
    Matching(coll, LAMBDA d :
        /\ "remote_identities" \in DOMAIN d
        /\ \E i \in 1..Len(d["remote_identities"]) :
               d["remote_identities"][i] = NewRemoteIdentity(ri))

\* userModel.user()
UserOf(doc) ==
    [ID |-> doc["_id"], Email |-> Field(doc, "email", ""),
     EmailVerified |-> Field(doc, "email_verified", FALSE),
     DisplayName |-> Field(doc, "display_name", ""),
     Admin |-> Field(doc, "admin", FALSE), Disabled |-> Field(doc, "disabled", FALSE),
     CreatedAt |-> Field(doc, "created_at", ZeroTime)]

\* The page sizes the callers of List ask for.
MaxPage == 2
\* The users a sequential history creates.
MaxUsers == 3
UserIDAt == <<"1", "2", "3", "4">>
EmailAt == <<"a@x", "b@x", "c@x", "d@x">>

\* user.UserFilter{}
NoFilter == "filter"

\* Page tokens: the empty string, the tokens EncodeNextPageToken makes, and
\* a string that is not one of them.
EmptyToken == [text |-> "", filter |-> NoFilter, maxResults |-> 0, offset |-> 0]
GarbageToken == [text |-> "zz", filter |-> NoFilter, maxResults |-> 0, offset |-> 0]
ErrInvalidPageToken == "invalid page token"

\* user.EncodeNextPageToken
EncodeNextPageToken(filter, maxResults, offset) ==
    [text |-> "token", filter |-> filter, maxResults |-> maxResults, offset |-> offset]

\* user.DecodeNextPageToken
DecodeNextPageToken(tok) ==
    IF tok.text = "token"
    THEN [filter |-> tok.filter, maxResults |-> tok.maxResults, offset |-> tok.offset,
          err |-> ""]
    ELSE [filter |-> NoFilter, maxResults |-> 0, offset |-> 0,
          err |-> ErrInvalidPageToken]

\* What a List call returns.
ListFail(e) == [done |-> TRUE, ok |-> FALSE, users |-> <<>>, tok |-> EmptyToken, err |-> e]
ListOk(users, tok) == [done |-> TRUE, ok |-> TRUE, users |-> users, tok |-> tok, err |-> ""]

\* c.Find(bson.M{}).Limit(limit).Skip(offset).All(&users); a limit of 0 is
\* no limit.
FindAll(coll, limit, offset) ==
    IF limit = 0 THEN SubSeq(coll, offset + 1, Len(coll))
    ELSE SubSeq(coll, offset + 1, Min(offset + limit, Len(coll)))

\* make([]user.User, numUsers) with numUsers negative
ErrPanicMakeslice == "panic: runtime error: makeslice: len out of range"

\* List whose token names the user after the one that comes next
ListPageSkipping(coll, filter, maxResults, offset) ==
    LET users == FindAll(coll, maxResults + 1, offset)
        more == Len(users) > maxResults
        numUsers == Min(Len(users), maxResults)
    IN IF Len(users) = 0 THEN ListFail(ErrorNotFound)
       ELSE IF numUsers < 0 THEN ListFail(ErrPanicMakeslice)
       ELSE ListOk([i \in 1..numUsers |-> UserOf(users[i])],
                   IF more
                   THEN EncodeNextPageToken(filter, maxResults, offset + maxResults + 1)
                   ELSE EmptyToken)

\* List, from its Find on: maxResults + 1 users are read from offset on; one
\* more than maxResults means more remain, and the token names the offset of
\* the next page.
ListPage(coll, filter, maxResults, offset) ==
    LET users == FindAll(coll, maxResults + 1, offset)
        more == Len(users) > maxResults
        numUsers == Min(Len(users), maxResults)
    IN IF Len(users) = 0 THEN ListFail(ErrorNotFound)
       ELSE IF numUsers < 0 THEN ListFail(ErrPanicMakeslice)
       ELSE ListOk([i \in 1..numUsers |-> UserOf(users[i])],
                   IF more
                   THEN EncodeNextPageToken(filter, maxResults, offset + maxResults)
                   ELSE EmptyToken)

\* List: a token given replaces filter and maxResults and sets the offset.
ListResult(coll, filter, maxResults, nextPageToken) ==
    IF nextPageToken = EmptyToken
    THEN ListPage(coll, filter, maxResults, 0)
    ELSE LET d == DecodeNextPageToken(nextPageToken)
         IN IF d.err # "" THEN ListFail(d.err)
            ELSE ListPage(coll, d.filter, d.maxResults, d.offset)

\* No List since the last write.
NoListing == [live |-> FALSE, m |-> 0, offset |-> 0, pages |-> <<>>,
              tok |-> EmptyToken, err |-> ""]

\* The IDs of the users of a page.
IDsOf(users) == [i \in 1..Len(users) |-> users[i].ID]

NoUser == UserValue("", "")
NoRemoteIdentity == [ConnectorID |-> "", ID |-> ""]
IdleUS == [pc |-> "idle", op |-> "", usr |-> NoUser, ri |-> NoRemoteIdentity,
           held |-> FALSE, res |-> NoRes]

InOrderUS(p) == \A q \in Procs : q < p => usProc[q].pc # "idle"
UsDone(p, e) ==
    usProc' = [usProc EXCEPT ![p] = [IdleUS EXCEPT !.pc = "done", !.op = usProc[p].op,
                                                   !.usr = usProc[p].usr,
                                                   !.ri = usProc[p].ri,
                                                   !.held = usProc[p].held, !.res = e]]

\* The pages listed so far go with the collection as it was: a write ends them.
KeepListing ==
    usListing' = IF mongoUsers' = mongoUsers THEN usListing ELSE NoListing
UsGoto(p, pc) == usProc' = [usProc EXCEPT ![p].pc = pc]

\* Create, up to its first backend call: the ID test, FindId(usr.ID), then
\* the email format test.
UserCreateFindId(p, usr) ==
    /\ usProc[p].pc = "idle"
    /\ InOrderUS(p)
    /\ LET started == [IdleUS EXCEPT !.op = "Create", !.usr = usr]
           failed(e) == [started EXCEPT !.pc = "done", !.res = Fail(e)]
       IN usProc' = [usProc EXCEPT ![p] =
            IF usr.ID = "" THEN failed(ErrorInvalidID)
            ELSE IF UserByID(mongoUsers, usr.ID) # {} THEN failed(ErrorDuplicateID)
            ELSE IF ~ValidEmail(usr.Email) THEN failed(ErrorInvalidEmail)
            ELSE [started EXCEPT !.pc = "create-email"]]
    /\ UNCHANGED <<mongoUsers, uhVars>>
    /\ UNCHANGED nonUsVars

\* Create without its look for the email
UserCreateNoGetByEmail(p) ==
    /\ usProc[p].pc = "create-email"
    /\ UsGoto(p, "create-insert")
    /\ UNCHANGED <<mongoUsers, uhVars>>
    /\ UNCHANGED nonUsVars

\* Create, second backend call: m.GetByEmail(tx, usr.Email).
UserCreateGetByEmail(p) ==
    /\ usProc[p].pc = "create-email"
    /\ IF UserByEmail(mongoUsers, usProc[p].usr.Email) # {}
       THEN UsDone(p, Fail(ErrorDuplicateEmail))
       ELSE UsGoto(p, "create-insert")
    /\ UNCHANGED <<mongoUsers, uhVars>>
    /\ UNCHANGED nonUsVars

\* Create, third backend call: c.Insert(newUserModel(&usr)); _id is unique.
UserCreateInsert(p) ==
    /\ usProc[p].pc = "create-insert"
    /\ IF UserByID(mongoUsers, usProc[p].usr.ID) # {}
       THEN /\ UsDone(p, Fail(ErrMgoDuplicateKey))
            /\ UNCHANGED mongoUsers
       ELSE /\ UsDone(p, Ok(""))
            /\ mongoUsers' = Append(mongoUsers, NewUserModel(usProc[p].usr))
    /\ KeepListing
    /\ UNCHANGED <<usRemoved, nonUsVars>>

\* Update, up to its first backend call: the ID and email format tests, then
\* FindId(usr.ID).
UserUpdateFindId(p, usr) ==
    /\ usProc[p].pc = "idle"
    /\ InOrderUS(p)
    /\ LET started == [IdleUS EXCEPT !.op = "Update", !.usr = usr]
           failed(e) == [started EXCEPT !.pc = "done", !.res = Fail(e)]
       IN usProc' = [usProc EXCEPT ![p] =
            IF usr.ID = "" THEN failed(ErrorInvalidID)
            ELSE IF ~ValidEmail(usr.Email) THEN failed(ErrorInvalidEmail)
            ELSE IF UserByID(mongoUsers, usr.ID) = {} THEN failed(ErrorNotFound)
            ELSE [started EXCEPT !.pc = "update-email"]]
    /\ UNCHANGED <<mongoUsers, uhVars>>
    /\ UNCHANGED nonUsVars

\* Update refusing an email any stored user has, the user updated included
UserUpdateFindEmailAny(p) ==
    /\ usProc[p].pc = "update-email"
    /\ LET found == UserByEmail(mongoUsers, usProc[p].usr.Email)
       IN IF found # {}
          THEN UsDone(p, Fail(ErrorDuplicateEmail))
          ELSE UsGoto(p, "update-write")
    /\ UNCHANGED <<mongoUsers, uhVars>>
    /\ UNCHANGED nonUsVars

\* Update, second backend call: Find({"email": usr.Email}).One(&usrOther2).
UserUpdateFindEmail(p) ==
    /\ usProc[p].pc = "update-email"
    /\ LET found == UserByEmail(mongoUsers, usProc[p].usr.Email)
       IN IF found # {} /\ mongoUsers[First(found)]["_id"] # usProc[p].usr.ID
          THEN UsDone(p, Fail(ErrorDuplicateEmail))
          ELSE UsGoto(p, "update-write")
    /\ UNCHANGED <<mongoUsers, uhVars>>
    /\ UNCHANGED nonUsVars

\* Update, third backend call: c.UpdateId(usr.ID, newUserModel(&usr)).  The
\* update document has no $ operator: it replaces the stored document.
UserUpdateWrite(p) ==
    /\ usProc[p].pc = "update-write"
    /\ LET hit == UserByID(mongoUsers, usProc[p].usr.ID)
       IN IF hit = {}
          THEN /\ UsDone(p, Fail(ErrMgoNotFound))
               /\ UNCHANGED mongoUsers
          ELSE /\ UsDone(p, Ok(""))
               /\ mongoUsers' = [mongoUsers EXCEPT ![First(hit)] =
                                    NewUserModel(usProc[p].usr)]
    /\ KeepListing
    /\ UNCHANGED <<usRemoved, nonUsVars>>

\* AddRemoteIdentity, first backend call: m.GetByRemoteIdentity(tx, ri).
UserAddRemoteIdentityGet(p, userID, ri) ==
    /\ usProc[p].pc = "idle"
    /\ InOrderUS(p)
    /\ LET held == UserByRemoteIdentity(mongoUsers, ri) # {}
           started == [IdleUS EXCEPT !.op = "AddRemoteIdentity",
                                     !.usr = UserValue(userID, ""), !.ri = ri,
                                     !.held = held]
       IN usProc' = [usProc EXCEPT ![p] =
            IF held
            THEN [IdleUS EXCEPT !.pc = "done", !.op = started.op, !.held = TRUE,
                                !.res = Fail(ErrorDuplicateRemoteIdentity)]
            ELSE [started EXCEPT !.pc = "add-push"]]
    /\ UNCHANGED <<mongoUsers, uhVars>>
    /\ UNCHANGED nonUsVars

\* AddRemoteIdentity, second backend call:
\* c.UpdateId(userID, {"$push": {"remote_identities": newRemoteIdentity(ri)}})
UserAddRemoteIdentityPush(p) ==
    /\ usProc[p].pc = "add-push"
    /\ LET hit == UserByID(mongoUsers, usProc[p].usr.ID)
       IN IF hit = {}
          THEN /\ UsDone(p, Fail(ErrorNotFound))
               /\ UNCHANGED <<mongoUsers, usRemoved>>
          ELSE LET doc == mongoUsers[First(hit)]
                   ris == Field(doc, "remote_identities", <<>>)
               IN /\ UsDone(p, Ok(""))
                  /\ mongoUsers' = [mongoUsers EXCEPT ![First(hit)] =
                        SetField(doc, "remote_identities",
                                 Append(ris, NewRemoteIdentity(usProc[p].ri)))]
                  /\ usRemoved' = usRemoved \ {usProc[p].ri}
    /\ KeepListing
    /\ UNCHANGED nonUsVars

\* RemoveRemoteIdentity without its ownership test
RemoveOfAbsentSucceeds(p, userID, rid) ==
    /\ usProc[p].pc = "idle"
    /\ InOrderUS(p)
    /\ LET started == [IdleUS EXCEPT !.op = "RemoveRemoteIdentity",
                                     !.usr = UserValue(userID, ""), !.ri = rid]
           failed(e) == [started EXCEPT !.pc = "done", !.res = Fail(e)]
           found == UserByRemoteIdentity(mongoUsers, rid)
       IN usProc' = [usProc EXCEPT ![p] =
            IF userID = "" \/ rid.ID = "" \/ rid.ConnectorID = ""
            THEN failed(ErrorInvalidID)
            ELSE IF found = {} THEN failed(ErrorNotFound)
            ELSE [started EXCEPT !.pc = "remove-pull"]]
    /\ UNCHANGED <<mongoUsers, uhVars>>
    /\ UNCHANGED nonUsVars

\* RemoveRemoteIdentity, up to its first backend call: the tests of the
\* arguments, getUserIDForRemoteIdentity(tx, rid), and the ownership test.
UserRemoveRemoteIdentityGet(p, userID, rid) ==
    /\ usProc[p].pc = "idle"
    /\ InOrderUS(p)
    /\ LET started == [IdleUS EXCEPT !.op = "RemoveRemoteIdentity",
                                     !.usr = UserValue(userID, ""), !.ri = rid]
           failed(e) == [started EXCEPT !.pc = "done", !.res = Fail(e)]
           found == UserByRemoteIdentity(mongoUsers, rid)
       IN usProc' = [usProc EXCEPT ![p] =
            IF userID = "" \/ rid.ID = "" \/ rid.ConnectorID = ""
            THEN failed(ErrorInvalidID)
            ELSE IF found = {} THEN failed(ErrorNotFound)
            ELSE IF mongoUsers[First(found)]["_id"] # userID THEN failed(ErrorNotFound)
            ELSE [started EXCEPT !.pc = "remove-pull"]]
    /\ UNCHANGED <<mongoUsers, uhVars>>
    /\ UNCHANGED nonUsVars

\* $pull: the elements of the array equal to the one given go.
Pull(ris, ri) == SelectSeq(ris, LAMBDA x : x # ri)

\* RemoveRemoteIdentity, second backend call: c.UpdateAll({"_id": userID},
\* {"$pull": {"remote_identities": newRemoteIdentity(rid)}}); no document
\* updated is NotFound.
UserRemoveRemoteIdentityPull(p) ==
    /\ usProc[p].pc = "remove-pull"
    /\ LET hit == UserByID(mongoUsers, usProc[p].usr.ID)
       IN IF hit = {}
          THEN /\ UsDone(p, Fail(ErrorNotFound))
               /\ UNCHANGED <<mongoUsers, usRemoved>>
          ELSE LET doc == mongoUsers[First(hit)]
               IN /\ UsDone(p, Ok(""))
                  /\ mongoUsers' = [mongoUsers EXCEPT ![First(hit)] =
                        IF "remote_identities" \in DOMAIN doc
                        THEN [doc EXCEPT !["remote_identities"] =
                                 Pull(@, NewRemoteIdentity(usProc[p].ri))]
                        ELSE doc]
                  /\ usRemoved' = usRemoved \cup {usProc[p].ri}
    /\ KeepListing
    /\ UNCHANGED nonUsVars

\* GetByRemoteIdentity: one Find.
UserGetByRemoteIdentity(p, ri) ==
    /\ usProc[p].pc = "idle"
    /\ InOrderUS(p)
    /\ LET found == UserByRemoteIdentity(mongoUsers, ri)
       IN usProc' = [usProc EXCEPT ![p] =
            [IdleUS EXCEPT !.pc = "done", !.op = "GetByRemoteIdentity", !.ri = ri,
                           !.usr = IF found = {} THEN NoUser
                                   ELSE UserOf(mongoUsers[First(found)]),
                           !.res = IF found = {} THEN Fail(ErrorNotFound) ELSE Ok("")]]
    /\ UNCHANGED <<mongoUsers, uhVars>>
    /\ UNCHANGED nonUsVars

\* List: one Find.  A call without a token begins a listing; a call with
\* the token of the page before continues it.
UserList(p, maxResults, nextPageToken) ==
    /\ usProc[p].pc = "idle"
    /\ InOrderUS(p)
    /\ LET r == ListResult(mongoUsers, NoFilter, maxResults, nextPageToken)
           page == IF r.ok THEN <<IDsOf(r.users)>> ELSE <<>>
       IN /\ usProc' = [usProc EXCEPT ![p] =
                [IdleUS EXCEPT !.pc = "done", !.op = "List",
                               !.res = IF r.ok THEN Ok("") ELSE Fail(r.err)]]
          /\ usListing' =
                IF nextPageToken = EmptyToken
                THEN [live |-> TRUE, m |-> maxResults, offset |-> 0, pages |-> page,
                      tok |-> r.tok, err |-> r.err]
                ELSE IF nextPageToken = usListing.tok
                THEN [usListing EXCEPT !.offset = nextPageToken.offset,
                                       !.pages = @ \o page, !.tok = r.tok,
                                       !.err = r.err]
                ELSE usListing
    /\ UNCHANGED <<mongoUsers, usRemoved>>
    /\ UNCHANGED nonUsVars

\* Disable: the ID test, then c.UpdateId(userID, bson.M{"disabled": disable}).
\* The update document has no $ operator: it replaces the stored document.
Disable(coll, userID, disable) ==
    LET hit == UserByID(coll, userID)
    IN IF userID = "" THEN [err |-> ErrorInvalidID, coll |-> coll]
       ELSE IF hit = {} THEN [err |-> ErrorNotFound, coll |-> coll]
       ELSE [err |-> "",
             coll |-> [coll EXCEPT ![First(hit)] =
                          [_id |-> userID, disabled |-> disable]]]

\* A caller's Disable.
UserDisable(p, userID, disable) ==
    /\ usProc[p].pc = "idle"
    /\ InOrderUS(p)
    /\ LET d == Disable(mongoUsers, userID, disable)
       IN /\ usProc' = [usProc EXCEPT ![p] =
                [IdleUS EXCEPT !.pc = "done", !.op = "Disable",
                               !.usr = [UserValue(userID, "") EXCEPT
                                           !.Disabled = disable],
                               !.res = IF d.err = "" THEN Ok("") ELSE Fail(d.err)]]
          /\ mongoUsers' = d.coll
    /\ KeepListing
    /\ UNCHANGED <<usRemoved, nonUsVars>>

\* GetAdminCount: c.Find(bson.M{"admin": true}).Count()
GetAdminCount(coll) ==
    Cardinality(Matching(coll, LAMBDA d : "admin" \in DOMAIN d /\ d["admin"]))

\* A call that has returned leaves its caller free for the next call.
UserReturn(p) ==
    /\ usProc[p].pc = "done"
    /\ usProc' = [usProc EXCEPT ![p] = IdleUS]
    /\ UNCHANGED <<mongoUsers, uhVars>>
    /\ UNCHANGED nonUsVars

InitUS ==
    /\ mongoUsers = <<>>
    /\ usProc = [p \in Procs |-> IdleUS]
    /\ usRemoved = {}
    /\ usListing = NoListing

\* Concurrent callers of the user repo.
NextUS ==
    \/ \E p \in Procs, id \in UserIDs \cup {""}, e \in Emails :
           UserCreateFindId(p, UserValue(id, e))
    \/ \E p \in Procs : UserCreateGetByEmail(p)
    \/ \E p \in Procs : UserCreateInsert(p)
    \/ \E p \in Procs, id \in UserIDs \cup {""}, e \in Emails :
           UserUpdateFindId(p, UserValue(id, e))
    \/ \E p \in Procs : UserUpdateFindEmail(p)
    \/ \E p \in Procs : UserUpdateWrite(p)
    \/ \E p \in Procs, id \in UserIDs, ri \in RemoteIdentities :
           UserAddRemoteIdentityGet(p, id, ri)
    \/ \E p \in Procs : UserAddRemoteIdentityPush(p)
    \/ \E p \in Procs : UserReturn(p)

\* Remote identities as callers may give them: with a field left empty too.
GivenRemoteIdentities ==
    RemoteIdentities \cup {[ConnectorID |-> "c", ID |-> ""],
                           [ConnectorID |-> "", ID |-> "r1"]}

\* The tokens a caller of List has at hand.
GivenTokens == {EmptyToken, GarbageToken, usListing.tok}

\* The user IDs and emails a caller gives: those of the users stored, the
\* next ones not yet stored, and an invalid one.  Users are created in the
\* order of UserIDAt and EmailAt.
NextUser == Min(Len(mongoUsers) + 1, MaxUsers)
GivenUserIDs == {UserIDAt[i] : i \in 1..NextUser} \cup {""}
GivenEmails == {EmailAt[i] : i \in 1..NextUser} \cup {"bad"}

\* Sequential histories of the user repo: one caller, whose next call starts
\* when the last one has returned.
NextSeqUS ==
    \/ \E id \in GivenUserIDs, e \in GivenEmails :
           UserCreateFindId(1, UserValue(id, e))
    \/ UserCreateGetByEmail(1)
    \/ UserCreateInsert(1)
    \/ \E id \in GivenUserIDs, ri \in RemoteIdentities :
           UserAddRemoteIdentityGet(1, id, ri)
    \/ UserAddRemoteIdentityPush(1)
    \/ \E id \in GivenUserIDs, rid \in GivenRemoteIdentities :
           UserRemoveRemoteIdentityGet(1, id, rid)
    \/ UserRemoveRemoteIdentityPull(1)
    \/ \E ri \in RemoteIdentities : UserGetByRemoteIdentity(1, ri)
    \/ \E maxResults \in 1..MaxPage, tok \in GivenTokens :
           UserList(1, maxResults, tok)
    \/ UserReturn(1)

\* The users a history of maintenance creates, and the IDs and emails its
\* caller gives.
MaxMaintained == 2
NextMaintained == Min(Len(mongoUsers) + 1, MaxMaintained)
MaintainedUserIDs == {UserIDAt[i] : i \in 1..NextMaintained} \cup {""}
MaintainedEmails == {EmailAt[i] : i \in 1..NextMaintained} \cup {"bad"}

\* Sequential histories of the maintenance of users: one caller creating,
\* updating and disabling users and giving them remote identities.
NextSeqUM ==
    \/ \E id \in MaintainedUserIDs, e \in MaintainedEmails, admin \in BOOLEAN :
           UserCreateFindId(1, [UserValue(id, e) EXCEPT !.Admin = admin])
    \/ UserCreateGetByEmail(1)
    \/ UserCreateInsert(1)
    \/ \E id \in MaintainedUserIDs, e \in MaintainedEmails :
           UserUpdateFindId(1, UserValue(id, e))
    \/ UserUpdateFindEmail(1)
    \/ UserUpdateWrite(1)
    \/ \E id \in MaintainedUserIDs, disable \in BOOLEAN : UserDisable(1, id, disable)
    \/ \E id \in MaintainedUserIDs, ri \in RemoteIdentities :
           UserAddRemoteIdentityGet(1, id, ri)
    \/ UserAddRemoteIdentityPush(1)
    \/ UserReturn(1)

(***************************************************************************)
(* Sessions.                                                               *)
(***************************************************************************)
SessionStates == {"NEW", "IDENTIFIED"}
ExpiryTimes == {ZeroTime} \cup (ClockStart..MaxClock)

\* The session.Session values the callers pass.
SessionValue(id, state, expiresAt) ==
    [ID |-> id, State |-> state, CreatedAt |-> ClockStart, ExpiresAt |-> expiresAt,
     ClientID |-> "client", ClientState |-> "cs", RedirectURL |-> [url |-> "r"],
     Identity |-> [ID |-> "i"], ConnectorID |-> "c", UserID |-> "u",
     Register |-> FALSE, Nonce |-> "n", Scope |-> <<"openid">>]

Sessions ==
    {SessionValue(id, st, e) : id \in SessionIDs, st \in SessionStates, e \in ExpiryTimes}

\* The zero session.Session.
NoSession ==
    [ID |-> "", State |-> "", CreatedAt |-> ZeroTime, ExpiresAt |-> ZeroTime,
     ClientID |-> "", ClientState |-> "", RedirectURL |-> [url |-> ""],
     Identity |-> [ID |-> ""], ConnectorID |-> "", UserID |-> "",
     Register |-> FALSE, Nonce |-> "", Scope |-> <<>>]

\* s.RedirectURL.String() and url.Parse
UrlString(u) == <<"url", u.url>>
UrlParse(str) == [url |-> str[2]]

\* json.Marshal(s.Identity) and json.Unmarshal([]byte(s.Identity), &ident)
MarshalIdentity(ident) == <<"json", ident.ID>>
UnmarshalIdentity(str) == [ID |-> str[2]]

\* time.Unix(sec, 0)
FromUnix(sec) == sec * TicksPerSecond

\* etcd newSessionModel: the two times are kept as whole Unix seconds.
EtcdNewSessionModel(ses) ==
    [ID |-> ses.ID, State |-> ses.State,
     CreatedAt |-> IF ses.CreatedAt # ZeroTime THEN Unix(ses.CreatedAt) ELSE 0,
     ExpiresAt |-> IF ses.ExpiresAt # ZeroTime THEN Unix(ses.ExpiresAt) ELSE 0,
     ClientID |-> ses.ClientID, ClientState |-> ses.ClientState,
     RedirectURL |-> UrlString(ses.RedirectURL),
     Identity |-> MarshalIdentity(ses.Identity),
     ConnectorID |-> ses.ConnectorID, UserID |-> ses.UserID,
     Register |-> ses.Register, Nonce |-> ses.Nonce, Scope |-> ses.Scope]

\* etcd sessionModel.session
EtcdSession(sm) ==
    [ID |-> sm.ID, State |-> sm.State,
     CreatedAt |-> IF sm.CreatedAt # 0 THEN FromUnix(sm.CreatedAt) ELSE ZeroTime,
     ExpiresAt |-> IF sm.ExpiresAt # 0 THEN FromUnix(sm.ExpiresAt) ELSE ZeroTime,
     ClientID |-> sm.ClientID, ClientState |-> sm.ClientState,
     RedirectURL |-> UrlParse(sm.RedirectURL),
     Identity |-> UnmarshalIdentity(sm.Identity),
     ConnectorID |-> sm.ConnectorID, UserID |-> sm.UserID,
     Register |-> sm.Register, Nonce |-> sm.Nonce, Scope |-> sm.Scope]

\* mongodb newSessionModel: the document, with its bson field names.
MongoNewSessionModel(ses) ==
    [_id |-> ses.ID, state |-> ses.State,
     created_at |-> IF ses.CreatedAt # ZeroTime THEN ses.CreatedAt ELSE ZeroTime,
     expires_at |-> IF ses.ExpiresAt # ZeroTime THEN ses.ExpiresAt ELSE ZeroTime,
     client_id |-> ses.ClientID, client_state |-> ses.ClientState,
     redirect_url |-> UrlString(ses.RedirectURL),
     identity |-> MarshalIdentity(ses.Identity),
     connector_id |-> ses.ConnectorID, user_id |-> ses.UserID,
     register |-> ses.Register, nonce |-> ses.Nonce, scope |-> ses.Scope]

\* mongodb sessionModel.session
MongoSession(sm) ==
    [ID |-> sm["_id"], State |-> sm.state,
     CreatedAt |-> IF sm.created_at # ZeroTime THEN sm.created_at ELSE ZeroTime,
     ExpiresAt |-> IF sm.expires_at # ZeroTime THEN sm.expires_at ELSE ZeroTime,
     ClientID |-> sm.client_id, ClientState |-> sm.client_state,
     RedirectURL |-> UrlParse(sm.redirect_url),
     Identity |-> UnmarshalIdentity(sm.identity),
     ConnectorID |-> sm.connector_id, UserID |-> sm.user_id,
     Register |-> sm.register, Nonce |-> sm.nonce, Scope |-> sm.scope]

ErrMgoDuplicateID == "mgo: E11000 duplicate key (_id)"

SeOk(v) == [done |-> TRUE, ok |-> TRUE, val |-> v, err |-> ""]
SeFail(e) == [done |-> TRUE, ok |-> FALSE, val |-> NoSession, err |-> e]
NoSeRes == [done |-> FALSE, ok |-> FALSE, val |-> NoSession, err |-> ""]
NoCall == [op |-> "", id |-> "", now |-> 0, existed |-> FALSE, res |-> NoSeRes]
NoWrite == [op |-> "", s |-> NoSession]

\* The sessions of the backend in use.
StoredSessions == IF driver = "etcd" THEN etcdSessions ELSE mongoSessions

\* ses.ExpiresAt.Before(m.clock.Now()), with the test left out
SessionExpiredNever(ses, now) == FALSE

\* ses.ExpiresAt.Before(m.clock.Now())
SessionExpired(ses, now) == ses.ExpiresAt < now

SeCalled(op, id, res) ==
    seLast' = [op |-> op, id |-> id, now |-> clock,
               existed |-> id \in DOMAIN StoredSessions, res |-> res]

SeWrote(op, ses) == seWritten' = [seWritten EXCEPT ![ses.ID] = [op |-> op, s |-> ses]]

\* r.driver.kAPI.Create: fails when the node exists.
EtcdInsert(op, ses) ==
    IF ses.ID \in DOMAIN etcdSessions
    THEN /\ SeCalled(op, ses.ID, SeFail(ErrEtcdNodeExist))
         /\ UNCHANGED <<etcdSessions, seWritten>>
    ELSE /\ SeCalled(op, ses.ID, SeOk(NoSession))
         /\ etcdSessions' = [id \in DOMAIN etcdSessions \cup {ses.ID} |->
                                IF id = ses.ID THEN EtcdNewSessionModel(ses)
                                ELSE etcdSessions[id]]
         /\ SeWrote(op, ses)

\* etcd sessionRepo.Create
EtcdSessionCreate(ses) ==
    /\ driver = "etcd"
    /\ EtcdInsert("Create", ses)
    /\ UNCHANGED <<clock, mongoSessions>>
    /\ UNCHANGED nonSeVars

\* etcd sessionRepo.Update
EtcdSessionUpdate(ses) ==
    /\ driver = "etcd"
    /\ EtcdInsert("Update", ses)
    /\ UNCHANGED <<clock, mongoSessions>>
    /\ UNCHANGED nonSeVars

\* What the etcd sessionRepo.Get returns: r.get passes on the error of
\* kAPI.Get for a missing node; the expiry test follows the decoding.
EtcdGetResult(nodes, sessionID, now) ==
    IF sessionID \notin DOMAIN nodes
    THEN SeFail(ErrEtcdKeyNotFound)
    ELSE LET ses == EtcdSession(nodes[sessionID])
         IN IF SessionExpired(ses, now)
            THEN SeFail(ErrSessionNotExist)
            ELSE SeOk(ses)

\* etcd sessionRepo.Get
EtcdSessionGet(sessionID) ==
    /\ driver = "etcd"
    /\ SeCalled("Get", sessionID, EtcdGetResult(etcdSessions, sessionID, clock))
    /\ UNCHANGED <<clock, etcdSessions, mongoSessions, seWritten>>
    /\ UNCHANGED nonSeVars

\* mongodb sessionRepo.Create: cc.Insert(sm)
MongoSessionCreate(ses) ==
    /\ driver = "mongo"
    /\ IF ses.ID \in DOMAIN mongoSessions
       THEN /\ SeCalled("Create", ses.ID, SeFail(ErrMgoDuplicateID))
            /\ UNCHANGED <<mongoSessions, seWritten>>
       ELSE /\ SeCalled("Create", ses.ID, SeOk(NoSession))
            /\ mongoSessions' = [id \in DOMAIN mongoSessions \cup {ses.ID} |->
                                    IF id = ses.ID THEN MongoNewSessionModel(ses)
                                    ELSE mongoSessions[id]]
            /\ SeWrote("Create", ses)
    /\ UNCHANGED <<clock, etcdSessions>>
    /\ UNCHANGED nonSeVars

\* mongodb sessionRepo.Update: cc.UpdateId(s.ID, sm)
MongoSessionUpdate(ses) ==
    /\ driver = "mongo"
    /\ IF ses.ID \notin DOMAIN mongoSessions
       THEN /\ SeCalled("Update", ses.ID, SeFail(ErrMgoNotFound))
            /\ UNCHANGED <<mongoSessions, seWritten>>
       ELSE /\ SeCalled("Update", ses.ID, SeOk(NoSession))
            /\ mongoSessions' = [mongoSessions EXCEPT ![ses.ID] = MongoNewSessionModel(ses)]
            /\ SeWrote("Update", ses)
    /\ UNCHANGED <<clock, etcdSessions>>
    /\ UNCHANGED nonSeVars

\* What the mongodb sessionRepo.Get returns: FindId(sessionID).One gives
\* mgo.ErrNotFound for a missing document; the expiry test follows the decoding.
MongoGetResult(docs, sessionID, now) ==
    IF sessionID \notin DOMAIN docs
    THEN SeFail(ErrMgoNotFound)
    ELSE LET ses == MongoSession(docs[sessionID])
         IN IF SessionExpired(ses, now)
            THEN SeFail(ErrSessionNotExist)
            ELSE SeOk(ses)

\* mongodb sessionRepo.Get
MongoSessionGet(sessionID) ==
    /\ driver = "mongo"
    /\ SeCalled("Get", sessionID, MongoGetResult(mongoSessions, sessionID, clock))
    /\ UNCHANGED <<clock, etcdSessions, mongoSessions, seWritten>>
    /\ UNCHANGED nonSeVars

\* The TTL index on expires_at (ExpireAfter 0) deletes a session document
\* whose expires_at lies in the past.
MongoExpireSession(id) ==
    /\ driver = "mongo"
    /\ id \in DOMAIN mongoSessions
    /\ mongoSessions[id].expires_at < clock
    /\ mongoSessions' = [i \in DOMAIN mongoSessions \ {id} |-> mongoSessions[i]]
    /\ UNCHANGED <<clock, etcdSessions, seLast, seWritten>>
    /\ UNCHANGED nonSeVars

\* Time passes.
TickSE ==
    /\ clock < MaxClock
    /\ clock' = clock + 1
    /\ UNCHANGED seVars
    /\ UNCHANGED nonSeVars

InitSE ==
    /\ etcdSessions = EmptyMap
    /\ mongoSessions = EmptyMap
    /\ seLast = NoCall
    /\ seWritten = [id \in SessionIDs |-> NoWrite]

NextSE ==
    \/ \E ses \in Sessions : EtcdSessionCreate(ses)
    \/ \E ses \in Sessions : EtcdSessionUpdate(ses)
    \/ \E id \in SessionIDs : EtcdSessionGet(id)
    \/ \E ses \in Sessions : MongoSessionCreate(ses)
    \/ \E ses \in Sessions : MongoSessionUpdate(ses)
    \/ \E id \in SessionIDs : MongoSessionGet(id)
    \/ \E id \in SessionIDs : MongoExpireSession(id)
    \/ TickSE

(***************************************************************************)
(* Client identities.                                                      *)
(***************************************************************************)
\* Blowfish's maximum password length.
maxSecretLength == 72

\* Client IDs a caller can name; New is called with the non-empty ones.
ClientIDs == {"", "a", "b"}
NewClientIDs == ClientIDs \ {""}
Metadatas == {<<>>, <<"https://a.example/cb">>}

\* A byte string is kept as the name of its first maxSecretLength bytes (of
\* all of them when it is shorter) and its length.
Bytes(pre, len) == [pre |-> pre, len |-> len]
FirstBytes(b, n) == Bytes(b.pre, Min(b.len, n))

\* pcrypto.RandBytes(n): the byte strings it can return.
RandBytes(n) == {Bytes(r, n) : r \in {"r1", "r2"}}

\* bcrypt.GenerateFromPassword: the bytes of a password past the first 72
\* are ignored.
GenerateFromPassword(secret) == [bcrypt |-> FirstBytes(secret, maxSecretLength)]

\* bcrypt.CompareHashAndPassword(hash, password) == nil
CompareHashAndPassword(hash, password) == hash = GenerateFromPassword(password)

\* base64.URLEncoding.EncodeToString
EncodeToString(bytes) == <<B64Piece(bytes)>>

\* json.Marshal(newClientMetadataJSON(meta)); the empty string is no JSON.
MarshalMetadata(meta) == [json |-> TRUE, redirectURLs |-> meta]
EmptyString == [json |-> FALSE, redirectURLs |-> <<>>]
\* The zero value of the Secret field: no bcrypt hash at all.
NoHash == [bcrypt |-> Bytes("nil", 0)]

\* newClientIdentityModel; the model of the MongoDB backend has the
\* DexAdmin field, the etcd backend keeps the flag in a node of its own.
newClientIdentityModel(id, secret, meta) ==
    IF driver = "mongo"
    THEN [ID |-> id, Secret |-> GenerateFromPassword(secret),
          Metadata |-> MarshalMetadata(meta), DexAdmin |-> FALSE]
    ELSE [ID |-> id, Secret |-> GenerateFromPassword(secret),
          Metadata |-> MarshalMetadata(meta)]

ErrClientNotFound == "no client found"
NoClient == [ID |-> "", Secret |-> NoHash, Metadata |-> EmptyString, DexAdmin |-> FALSE]

\* etcd keeps the identity directory once a client was created in it.
EtcdClientDirectoryExists == DOMAIN clientIdentities # {}

\* The load of the record by ID.  etcd: r.get maps key-not-found to
\* client.ErrorNotFound; r.key("") is the identity directory, whose node has
\* an empty value that json.Unmarshal refuses.  MongoDB: FindId(id).One
\* returns mgo.ErrNotFound when there is no document.
ClientGet(id) ==
    IF driver = "etcd" /\ id = "" /\ EtcdClientDirectoryExists
    THEN [err |-> ErrJSONUnmarshal, cim |-> NoClient]
    ELSE IF id \notin DOMAIN clientIdentities
    THEN [err |-> IF driver = "etcd" THEN ErrClientNotFound ELSE ErrMgoNotFound,
          cim |-> NoClient]
    ELSE [err |-> "", cim |-> clientIdentities[id]]

\* len(dec) > maxSecretLength
SecretTooLong(dec) == dec.len > maxSecretLength

\* What Authenticate returns: the load, the not-found case, the decoding of
\* the secret, the length test, the comparison with the stored hash.
AuthenticateResult(creds) ==
    LET got == ClientGet(creds.ID)
    IN IF got.err \in {ErrClientNotFound, ErrMgoNotFound} THEN [ok |-> FALSE, err |-> ""]
       ELSE IF got.err # "" THEN [ok |-> FALSE, err |-> got.err]
       ELSE IF ~IsBase64(creds.Secret) THEN [ok |-> FALSE, err |-> ""]
       ELSE IF SecretTooLong(Base64Decode(creds.Secret)) THEN [ok |-> FALSE, err |-> ""]
       ELSE [ok |-> CompareHashAndPassword(got.cim.Secret, Base64Decode(creds.Secret)),
             err |-> ""]

\* The secrets a caller can present: the issued ones, each of them with a
\* byte more, other secrets of several lengths, and text that is not base64.
IssuedSecrets == {clIssued[id].Secret : id \in DOMAIN clIssued}
PresentableSecrets ==
    IssuedSecrets \cup
    {EncodeToString(Bytes(t[1].v.pre, maxSecretLength + 1)) : t \in IssuedSecrets} \cup
    {EncodeToString(Bytes("w", n)) : n \in {5, maxSecretLength, maxSecretLength + 1}} \cup
    {<<RawPiece>>}

\* New: a random secret of maxSecretLength bytes, the model with its hash,
\* one insert (kAPI.Create / Insert, refused for an ID in use), and the
\* credentials with the secret in base64.
ClientNew(id, meta, secret) ==
    /\ id \notin DOMAIN clientIdentities
    /\ clientIdentities' =
           [i \in DOMAIN clientIdentities \cup {id} |->
              IF i = id THEN newClientIdentityModel(id, secret, meta)
              ELSE clientIdentities[i]]
    /\ clIssued' = [i \in DOMAIN clIssued \cup {id} |->
                      IF i = id THEN [ID |-> id, Secret |-> EncodeToString(secret)]
                      ELSE clIssued[i]]
    /\ UNCHANGED <<clLast, etcdAdminKeys, clAdminSet>>
    /\ UNCHANGED nonClVars

\* New with an ID in use, the insert overwriting the record (kAPI.Set, Upsert)
ClientNewOverwrites(id, meta, secret) ==
    /\ id \in DOMAIN clientIdentities
    /\ clientIdentities' =
           [clientIdentities EXCEPT ![id] = newClientIdentityModel(id, secret, meta)]
    /\ clLast' = [called |-> FALSE, op |-> "New", creds |-> [ID |-> id, Secret |-> <<>>],
                  issued |-> <<>>, ok |-> TRUE, val |-> <<>>, err |-> ""]
    /\ UNCHANGED <<clIssued, etcdAdminKeys, clAdminSet>>
    /\ UNCHANGED nonClVars

\* New with an ID in use: the insert fails and its error is returned.
ClientNewDuplicate(id, meta, secret) ==
    /\ id \in DOMAIN clientIdentities
    /\ clLast' = [called |-> FALSE, op |-> "New", creds |-> [ID |-> id, Secret |-> <<>>],
                  issued |-> <<>>, ok |-> FALSE, val |-> <<>>,
                  err |-> IF driver = "etcd" THEN ErrEtcdNodeExist ELSE ErrMgoDuplicateID]
    /\ UNCHANGED <<clientIdentities, clIssued, etcdAdminKeys, clAdminSet>>
    /\ UNCHANGED nonClVars

\* Authenticate makes one backend call, the load of the record.
ClientAuthenticate(creds) ==
    /\ clLast' = [called |-> TRUE, op |-> "Authenticate", creds |-> creds,
                  issued |-> IF creds.ID \in DOMAIN clIssued
                             THEN clIssued[creds.ID].Secret ELSE <<>>,
                  ok |-> AuthenticateResult(creds).ok, val |-> <<>>,
                  err |-> AuthenticateResult(creds).err]
    /\ UNCHANGED <<clientIdentities, clIssued, etcdAdminKeys, clAdminSet>>
    /\ UNCHANGED nonClVars

\* str := "0"; if isAdmin { str = "1" }, with the flag ignored
AdminStringZero(isAdmin) == "0"

\* str := "0"; if isAdmin { str = "1" }
AdminString(isAdmin) == IF isAdmin THEN "1" ELSE "0"

\* What IsDexAdmin returns.  etcd: the error of kAPI.Get as it is, else
\* whether the node's value is "1".  MongoDB: client.ErrorNotFound for no
\* document, else the dex_admin field.
IsDexAdminResult(id) ==
    IF driver = "etcd"
    THEN IF id \notin DOMAIN etcdAdminKeys THEN [ok |-> FALSE, err |-> ErrEtcdKeyNotFound]
         ELSE [ok |-> etcdAdminKeys[id] = "1", err |-> ""]
    ELSE IF id \notin DOMAIN clientIdentities THEN [ok |-> FALSE, err |-> ErrClientNotFound]
         ELSE [ok |-> clientIdentities[id].DexAdmin, err |-> ""]

\* clientIdentityModel.ClientIdentity: json.Unmarshal of the Metadata text.
UnmarshalMetadata(text) ==
    IF text.json THEN [val |-> text.redirectURLs, err |-> ""]
    ELSE [val |-> <<>>, err |-> ErrJSONUnmarshal]

\* What Metadata returns: the load, client.ErrorNotFound for no record, the
\* redirect URLs of the stored metadata.
MetadataResult(id) ==
    LET got == ClientGet(id)
    IN IF got.err \in {ErrClientNotFound, ErrMgoNotFound}
       THEN [val |-> <<>>, err |-> ErrClientNotFound]
       ELSE IF got.err # "" THEN [val |-> <<>>, err |-> got.err]
       ELSE UnmarshalMetadata(got.cim.Metadata)

\* The outcome of a call other than Authenticate, as clLast keeps it.
ClCalled(op, id, ok, val, err) ==
    clLast' = [called |-> FALSE, op |-> op, creds |-> [ID |-> id, Secret |-> <<>>],
               issued |-> <<>>, ok |-> ok, val |-> val, err |-> err]

\* SetDexAdmin of the etcd backend: kAPI.Set of the admin node of the ID,
\* whether the node or the client exists or not.
EtcdSetDexAdmin(id, isAdmin) ==
    /\ driver = "etcd"
    /\ etcdAdminKeys' = [i \in DOMAIN etcdAdminKeys \cup {id} |->
                           IF i = id THEN AdminString(isAdmin) ELSE etcdAdminKeys[i]]
    /\ clAdminSet' = [i \in DOMAIN clAdminSet \cup {id} |->
                        IF i = id THEN isAdmin ELSE clAdminSet[i]]
    /\ ClCalled("SetDexAdmin", id, TRUE, <<>>, "")
    /\ UNCHANGED <<clientIdentities, clIssued>>
    /\ UNCHANGED nonClVars

\* SetDexAdmin of the MongoDB backend: UpdateId with the document
\* {dex_admin: isAdmin}, which holds no update operator and so replaces the
\* stored document, the _id kept; mgo.ErrNotFound when there is none.
MongoSetDexAdmin(id, isAdmin) ==
    /\ driver = "mongo"
    /\ IF id \in DOMAIN clientIdentities
       THEN /\ clientIdentities' =
                  [clientIdentities EXCEPT ![id] =
                      [ID |-> id, Secret |-> NoHash, Metadata |-> EmptyString,
                       DexAdmin |-> isAdmin]]
            /\ clAdminSet' = [i \in DOMAIN clAdminSet \cup {id} |->
                                IF i = id THEN isAdmin ELSE clAdminSet[i]]
            /\ ClCalled("SetDexAdmin", id, TRUE, <<>>, "")
       ELSE /\ UNCHANGED <<clientIdentities, clAdminSet>>
            /\ ClCalled("SetDexAdmin", id, FALSE, <<>>, ErrMgoNotFound)
    /\ UNCHANGED <<clIssued, etcdAdminKeys>>
    /\ UNCHANGED nonClVars

\* IsDexAdmin and Metadata read only.
ClientIsDexAdmin(id) ==
    /\ ClCalled("IsDexAdmin", id, IsDexAdminResult(id).ok, <<>>, IsDexAdminResult(id).err)
    /\ UNCHANGED <<clientIdentities, clIssued, etcdAdminKeys, clAdminSet>>
    /\ UNCHANGED nonClVars

ClientMetadata(id) ==
    /\ ClCalled("Metadata", id, MetadataResult(id).err = "", MetadataResult(id).val,
                MetadataResult(id).err)
    /\ UNCHANGED <<clientIdentities, clIssued, etcdAdminKeys, clAdminSet>>
    /\ UNCHANGED nonClVars

InitCL ==
    /\ clientIdentities = EmptyMap
    /\ clIssued = EmptyMap
    /\ clLast = [called |-> FALSE, op |-> "", creds |-> [ID |-> "", Secret |-> <<>>],
                 issued |-> <<>>, ok |-> FALSE, val |-> <<>>, err |-> ""]
    /\ etcdAdminKeys = EmptyMap
    /\ clAdminSet = EmptyMap

NextCL ==
    \/ \E id \in NewClientIDs, meta \in Metadatas, secret \in RandBytes(maxSecretLength) :
           ClientNew(id, meta, secret)
    \/ \E id \in NewClientIDs, meta \in Metadatas, secret \in RandBytes(maxSecretLength) :
           ClientNewDuplicate(id, meta, secret)
    \/ \E id \in ClientIDs, secret \in PresentableSecrets :
           ClientAuthenticate([ID |-> id, Secret |-> secret])
    \/ \E id \in NewClientIDs, isAdmin \in BOOLEAN : EtcdSetDexAdmin(id, isAdmin)
    \/ \E id \in NewClientIDs, isAdmin \in BOOLEAN : MongoSetDexAdmin(id, isAdmin)
    \/ \E id \in NewClientIDs : ClientIsDexAdmin(id)
    \/ \E id \in NewClientIDs : ClientMetadata(id)

(***************************************************************************)
(* Construction of the private key set repo.                               *)
(***************************************************************************)
\* The length a key secret must have.
KeySecretLen == 32

\* Key secrets a deployment may be configured with: []byte("sharks") of the
\* test, and secrets one byte short of, exactly, and one byte over the length.
KeySecrets == {Bytes("sharks", 6), Bytes("k", KeySecretLen - 1),
               Bytes("k", KeySecretLen), Bytes("l", KeySecretLen),
               Bytes("k", KeySecretLen + 1)}
MaxSecrets == 2
SecretLists == UNION {[1..n -> KeySecrets] : n \in 0..MaxSecrets}

ErrNoKeySecret == "must provide at least one key secret"
ErrKeySecretLen == "expected 32-byte secret"

\* The secrets of the list whose len is not 32, by index.
BadSecrets(secrets) == {i \in 1..Len(secrets) : secrets[i].len # KeySecretLen}

\* The range loop over secrets: the error of the first secret of wrong
\* length, or the repo.
CheckSecrets(useOldFormat, secrets) ==
    IF BadSecrets(secrets) # {}
    THEN [ok |-> FALSE, err |-> ErrKeySecretLen,
          index |-> (CHOOSE i \in BadSecrets(secrets) :
                        \A j \in BadSecrets(secrets) : i <= j) - 1,
          repo |-> [secrets |-> <<>>, useOldFormat |-> FALSE]]
    ELSE [ok |-> TRUE, err |-> "", index |-> 0,
          repo |-> [secrets |-> secrets, useOldFormat |-> useOldFormat]]

\* etcd: NewPrivateKeySetRepo refuses an empty list first.
EtcdNewPrivateKeySetRepo(useOldFormat, secrets) ==
    IF Len(secrets) = 0
    THEN [ok |-> FALSE, err |-> ErrNoKeySecret, index |-> 0,
          repo |-> [secrets |-> <<>>, useOldFormat |-> FALSE]]
    ELSE CheckSecrets(useOldFormat, secrets)

\* MongoDB: MongoDBDriver.NewPrivateKeySetRepo has the loop only, and its
\* repo does not keep useOldFormatKeySecrets.
MongoNewPrivateKeySetRepo(useOldFormat, secrets) ==
    CheckSecrets(FALSE, secrets)

NewPrivateKeySetRepo(useOldFormat, secrets) ==
    /\ nkLast' = [called |-> TRUE, useOldFormat |-> useOldFormat, secrets |-> secrets,
                  res |-> IF driver = "etcd"
                          THEN EtcdNewPrivateKeySetRepo(useOldFormat, secrets)
                          ELSE MongoNewPrivateKeySetRepo(useOldFormat, secrets)]
    /\ UNCHANGED nonNkVars

InitNK ==
    nkLast = [called |-> FALSE, useOldFormat |-> FALSE, secrets |-> <<>>,
              res |-> [ok |-> FALSE, err |-> "", index |-> 0,
                       repo |-> [secrets |-> <<>>, useOldFormat |-> FALSE]]]

NextNK ==
    \E useOldFormat \in BOOLEAN, secrets \in SecretLists :
        NewPrivateKeySetRepo(useOldFormat, secrets)

(***************************************************************************)
(* Specifications.                                                         *)
(***************************************************************************)
(***************************************************************************)
(* The user management server: authAPIHandle, getCreds and the handlers.   *)
(***************************************************************************)
\* A claim of a token's payload: absent, present and no string, or a string.
Absent == [present |-> FALSE, str |-> FALSE, val |-> ""]
NotString == [present |-> TRUE, str |-> FALSE, val |-> ""]
Str(v) == [present |-> TRUE, str |-> TRUE, val |-> v]
ErrClaimNotString == "unable to parse claim as string"

\* jose.Claims.StringClaim
StringClaim(cl) ==
    IF ~cl.present THEN [val |-> "", ok |-> FALSE, err |-> ""]
    ELSE IF ~cl.str THEN [val |-> "", ok |-> FALSE, err |-> ErrClaimNotString]
    ELSE [val |-> cl.val, ok |-> TRUE, err |-> ""]

\* The errors of the user API and the error types of the responses.
ErrorUnauthorized == "unauthorized"
ErrorForbidden == "forbidden"
ErrorResourceNotFound == "resource_not_found"
ApiErrors == {ErrorUnauthorized, ErrorForbidden, ErrorResourceNotFound}
errorInvalidRequest == "invalid_request"
errorServerError == "server_error"
StatusOK == "ok"
ErrNoAud == "no aud(client ID) claim"

\* userRepo.Get: c.FindId(userID).One(&um)
UserGet(coll, userID) ==
    LET hit == UserByID(coll, userID)
    IN IF hit = {} THEN [usr |-> NoUser, err |-> ErrorNotFound]
       ELSE [usr |-> UserOf(coll[First(hit)]), err |-> ""]

NoCreds == [ClientID |-> "", User |-> NoUser]
CredsFail(e) == [creds |-> NoCreds, err |-> e]

\* getCreds letting a client that is no admin pass
getCredsAnyClient(r) ==
    LET aud == StringClaim(r.token.aud)
        sub == StringClaim(r.token.sub)
        usr == UserGet(mongoUsers, sub.val)
        isAdmin == IsDexAdminResult(aud.val)
    IN IF ~r.token.bearer THEN CredsFail(ErrorUnauthorized)
       ELSE IF ~r.token.parses THEN CredsFail(ErrorUnauthorized)
       ELSE IF ~r.token.claims THEN CredsFail(ErrorUnauthorized)
       ELSE IF aud.err # "" THEN CredsFail(aud.err)
       ELSE IF ~aud.ok \/ aud.val = "" THEN CredsFail(ErrNoAud)
       ELSE IF ~r.token.verifies THEN CredsFail(ErrorUnauthorized)
       ELSE IF sub.err # "" THEN CredsFail(sub.err)
       ELSE IF ~sub.ok \/ sub.val = "" THEN CredsFail(ErrorUnauthorized)
       ELSE IF usr.err = ErrorNotFound THEN CredsFail(ErrorUnauthorized)
       ELSE IF usr.err # "" THEN CredsFail(usr.err)
       ELSE IF isAdmin.err # "" THEN CredsFail(isAdmin.err)
       ELSE [creds |-> [ClientID |-> aud.val, User |-> usr.usr], err |-> ""]

\* getCreds: the bearer token, its parse, its claims, the aud claim, the
\* verification by the verifier of the aud client, the sub claim, um.Get of
\* the sub user, cir.IsDexAdmin of the aud client.
getCreds(r) ==
    LET aud == StringClaim(r.token.aud)
        sub == StringClaim(r.token.sub)
        usr == UserGet(mongoUsers, sub.val)
        isAdmin == IsDexAdminResult(aud.val)
    IN IF ~r.token.bearer THEN CredsFail(ErrorUnauthorized)
       ELSE IF ~r.token.parses THEN CredsFail(ErrorUnauthorized)
       ELSE IF ~r.token.claims THEN CredsFail(ErrorUnauthorized)
       ELSE IF aud.err # "" THEN CredsFail(aud.err)
       ELSE IF ~aud.ok \/ aud.val = "" THEN CredsFail(ErrNoAud)
       ELSE IF ~r.token.verifies THEN CredsFail(ErrorUnauthorized)
       ELSE IF sub.err # "" THEN CredsFail(sub.err)
       ELSE IF ~sub.ok \/ sub.val = "" THEN CredsFail(ErrorUnauthorized)
       ELSE IF usr.err = ErrorNotFound THEN CredsFail(ErrorUnauthorized)
       ELSE IF usr.err # "" THEN CredsFail(usr.err)
       ELSE IF isAdmin.err # "" THEN CredsFail(isAdmin.err)
       ELSE IF ~isAdmin.ok THEN CredsFail(ErrorForbidden)
       ELSE [creds |-> [ClientID |-> aud.val, User |-> usr.usr], err |-> ""]

\* writeError: the type of an api.Error, else a server error.
writeError(err) == IF err \in ApiErrors THEN err ELSE errorServerError

\* intFromQuery: the default for no value, else strconv.Atoi.
defaultMaxResults == 20
ErrAtoi == "strconv.Atoi: invalid syntax"
intFromQuery(q, defaultVal) ==
    IF ~q.given THEN [val |-> defaultVal, err |-> ""]
    ELSE IF ~q.int THEN [val |-> 0, err |-> ErrAtoi]
    ELSE [val |-> q.val, err |-> ""]

\* The user API behind the handlers: every call is for an admin user who is
\* not disabled, and goes to the user repo.
Authorize(creds) == creds.User.Admin /\ ~creds.User.Disabled
mapError(e) == IF e = ErrorNotFound THEN ErrorResourceNotFound ELSE e
ApiDisableUser(creds, id, disable) ==
    IF ~Authorize(creds) THEN [err |-> ErrorUnauthorized, coll |-> mongoUsers]
    ELSE LET d == Disable(mongoUsers, id, disable)
         IN [err |-> mapError(d.err), coll |-> d.coll]
ApiGetUser(creds, id) ==
    IF ~Authorize(creds) THEN ErrorUnauthorized
    ELSE mapError(UserGet(mongoUsers, id).err)
ApiListUsers(creds, maxResults, nextPageToken) ==
    IF ~Authorize(creds) THEN ErrorUnauthorized
    ELSE mapError(ListResult(mongoUsers, NoFilter, maxResults, nextPageToken).err)
ApiCreateUser(creds, email, admin) ==
    LET usr == [UserValue(UserIDAt[Len(mongoUsers) + 1], email) EXCEPT !.Admin = admin]
    IN IF ~Authorize(creds) THEN [err |-> ErrorUnauthorized, coll |-> mongoUsers]
       ELSE IF ~ValidEmail(email) THEN [err |-> ErrorInvalidEmail, coll |-> mongoUsers]
       ELSE IF UserByEmail(mongoUsers, email) # {}
       THEN [err |-> ErrorDuplicateEmail, coll |-> mongoUsers]
       ELSE [err |-> "", coll |-> Append(mongoUsers, NewUserModel(usr))]

\* A request: its bearer token, the id of its path, its body, its query.
NoBody == [json |-> FALSE, Disable |-> FALSE, Email |-> "", Admin |-> FALSE,
           url |-> FALSE]
NoQuery == [given |-> FALSE, int |-> FALSE, val |-> 0]
Request(token, id, body, maxResults, nextPageToken) ==
    [token |-> token, id |-> id, body |-> body, maxResults |-> maxResults,
     nextPageToken |-> nextPageToken]

\* What a handler did: the responses it wrote, the API calls it made and the
\* users it left.
Handled(responses, calls, coll) ==
    [responses |-> responses, calls |-> calls, coll |-> coll]
ApiCall(api, id, disable) == [api |-> api, id |-> id, disable |-> disable]
Answer(err) == IF err # "" THEN writeError(err) ELSE StatusOK

\* listUsers
listUsers(r, creds) ==
    LET maxResults == intFromQuery(r.maxResults, defaultMaxResults)
    IN IF maxResults.err # "" THEN Handled(<<errorInvalidRequest>>, <<>>, mongoUsers)
       ELSE Handled(<<Answer(ApiListUsers(creds, maxResults.val, r.nextPageToken))>>,
                    <<ApiCall("ListUsers", "", FALSE)>>, mongoUsers)

\* getUser
getUser(r, creds) ==
    IF r.id = "" THEN Handled(<<errorInvalidRequest>>, <<>>, mongoUsers)
    ELSE Handled(<<Answer(ApiGetUser(creds, r.id))>>,
                 <<ApiCall("GetUser", r.id, FALSE)>>, mongoUsers)

\* createUser: a body that does not parse is answered and ends the handler.
createUser(r, creds) ==
    IF ~r.body.json THEN Handled(<<errorInvalidRequest>>, <<>>, mongoUsers)
    ELSE IF ~r.body.url THEN Handled(<<errorInvalidRequest>>, <<>>, mongoUsers)
    ELSE LET c == ApiCreateUser(creds, r.body.Email, r.body.Admin)
         IN Handled(<<Answer(c.err)>>, <<ApiCall("CreateUser", "", FALSE)>>, c.coll)

\* disableUser: a body that does not parse is answered, and the handler goes
\* on with the zero value of the request.
disableUser(r, creds) ==
    IF r.id = "" THEN Handled(<<errorInvalidRequest>>, <<>>, mongoUsers)
    ELSE LET answered == IF r.body.json THEN <<>> ELSE <<errorInvalidRequest>>
             disable == IF r.body.json THEN r.body.Disable ELSE FALSE
             d == ApiDisableUser(creds, r.id, disable)
         IN Handled(answered \o <<Answer(d.err)>>,
                    <<ApiCall("DisableUser", r.id, disable)>>, d.coll)

Handles == {"listUsers", "createUser", "disableUser", "getUser"}
Handle(handle, r, creds) ==
    CASE handle = "listUsers" -> listUsers(r, creds)
      [] handle = "createUser" -> createUser(r, creds)
      [] handle = "disableUser" -> disableUser(r, creds)
      [] handle = "getUser" -> getUser(r, creds)

\* authAPIHandle: getCreds, its error written, else the handler.  apiLast
\* keeps of the request what was read of it: its token, and with a handler
\* that ran the rest.  For a handler that ran it keeps what the stores held
\* as the request came: whether the sub user was stored and what IsDexAdmin
\* returns for the aud client; wrote tells that the users changed.
authAPIHandle(handle, r) ==
    LET c == getCreds(r)
        h == IF c.err # "" THEN Handled(<<writeError(c.err)>>, <<>>, mongoUsers)
             ELSE Handle(handle, r, c.creds)
        read == IF c.err # "" THEN Request(r.token, "", NoBody, NoQuery, EmptyToken)
                ELSE r
    IN /\ apiLast' = [called |-> TRUE, handle |-> handle, req |-> read,
                      creds |-> c.creds, err |-> c.err, handled |-> c.err = "",
                      subStored |-> /\ c.err = ""
                                    /\ UserByID(mongoUsers, r.token.sub.val) # {},
                      isAdmin |-> IF c.err = "" THEN IsDexAdminResult(r.token.aud.val)
                                  ELSE [ok |-> FALSE, err |-> ""],
                      wrote |-> h.coll # mongoUsers,
                      responses |-> h.responses, calls |-> h.calls]
       /\ mongoUsers' = h.coll
       /\ KeepListing
       /\ UNCHANGED <<usProc, usRemoved, nonApVars>>

\* The requests.  A token is a good one, of the admin client and a user, or
\* a good one with one thing wrong.  The email of a user to create is the
\* first one, the next one no user has yet (users are created in the order
\* of EmailAt) or an invalid one; the users that requests create are no
\* admins.
ServedClientIDs == {"a"}
MaxServed == 2
ServedUserIDs == {UserIDAt[i] : i \in 1..MaxServed}
ServedEmails == {EmailAt[1], EmailAt[Min(Len(mongoUsers) + 1, MaxServed)], "bad"}
GoodJWT(sub) == [bearer |-> TRUE, parses |-> TRUE, claims |-> TRUE,
                 aud |-> Str("a"), sub |-> Str(sub), verifies |-> TRUE]
BearerTokens ==
    LET good == GoodJWT(UserIDAt[1])
    IN {GoodJWT(u) : u \in ServedUserIDs}
       \cup {[good EXCEPT !.bearer = FALSE], [good EXCEPT !.parses = FALSE],
             [good EXCEPT !.claims = FALSE], [good EXCEPT !.verifies = FALSE]}
       \cup {[good EXCEPT !.aud = c] : c \in {Absent, NotString, Str(""), Str("b")}}
       \cup {[good EXCEPT !.sub = c] : c \in {Absent, NotString, Str("")}}
NoJWT == [bearer |-> FALSE, parses |-> FALSE, claims |-> FALSE,
          aud |-> Absent, sub |-> Absent, verifies |-> FALSE]
DisableBodies == {NoBody} \cup {[NoBody EXCEPT !.json = TRUE, !.Disable = d] : d \in BOOLEAN}
CreateBodies ==
    {NoBody, [NoBody EXCEPT !.json = TRUE]}
    \cup {[NoBody EXCEPT !.json = TRUE, !.Email = e, !.url = TRUE] :
             e \in ServedEmails}
MaxResultsQueries ==
    {NoQuery, [NoQuery EXCEPT !.given = TRUE]}
    \cup {[given |-> TRUE, int |-> TRUE, val |-> v] : v \in 0..1}

\* The values a request has for a part that only a handler reads: every one
\* of S with a token that getCreds lets pass, the one kept unread otherwise.
Read(t, S, unread) ==
    IF getCreds(Request(t, "", NoBody, NoQuery, EmptyToken)).err = "" THEN S
    ELSE {unread}

InitAPI ==
    apiLast = [called |-> FALSE, handle |-> "",
               req |-> Request(NoJWT, "", NoBody, NoQuery, EmptyToken),
               creds |-> NoCreds, err |-> "", handled |-> FALSE,
               subStored |-> FALSE, isAdmin |-> [ok |-> FALSE, err |-> ""],
               wrote |-> FALSE, responses |-> <<>>, calls |-> <<>>]

\* newUserRepoFromUsers: the users inserted as the repo is built.
newUserRepoFromUsers(us) == [i \in 1..Len(us) |-> NewUserModel(us[i])]

\* The server's repo is built empty or with a first admin user.
FirstUsers == {<<>>, <<[UserValue(UserIDAt[1], EmailAt[1]) EXCEPT !.Admin = TRUE]>>}

\* The server with its clients and users: clients registered and made
\* admins, and the requests.
NextAPI ==
    \/ \E id \in ServedClientIDs : ClientNew(id, <<>>, Bytes("r1", maxSecretLength))
    \/ \E id \in ServedClientIDs, isAdmin \in BOOLEAN : MongoSetDexAdmin(id, isAdmin)
    \/ \E t \in BearerTokens :
           \E q \in Read(t, MaxResultsQueries, NoQuery),
              n \in Read(t, {EmptyToken, GarbageToken}, EmptyToken) :
              authAPIHandle("listUsers", Request(t, "", NoBody, q, n))
    \/ \E t \in BearerTokens :
           \E id \in Read(t, ServedUserIDs \cup {""}, "") :
              authAPIHandle("getUser", Request(t, id, NoBody, NoQuery, EmptyToken))
    \/ /\ Len(mongoUsers) < MaxServed
       /\ \E t \in BearerTokens :
              \E b \in Read(t, CreateBodies, NoBody) :
                 authAPIHandle("createUser", Request(t, "", b, NoQuery, EmptyToken))
    \/ \E t \in BearerTokens :
           \E id \in Read(t, ServedUserIDs \cup {""}, ""), b \in Read(t, DisableBodies, NoBody) :
              authAPIHandle("disableUser", Request(t, id, b, NoQuery, EmptyToken))

Init ==
    /\ driver \in Backends
    /\ clock = ClockStart
    /\ InitSK
    /\ InitNK
    /\ InitRT
    /\ InitKS
    /\ InitUS
    /\ InitSE
    /\ InitCL
    /\ InitAPI

SpecRT == Init /\ [][NextRT]_vars

SpecRTFail == Init /\ [][NextRTFail]_vars

\* Sequential histories of the refresh-token repo: a call starts only when no
\* Revoke is between its load and its delete.
RevokeInProgress == \E p \in Procs : rtProc[p].pc = "delete"
NextSeqRT ==
    \/ ~RevokeInProgress /\ \E a \in CreateArgs : Create(a[1], a[2], a[3])
    \/ ~RevokeInProgress /\ \E p \in Procs, c \in Clients, t \in Presentable : Verify(p, c, t)
    \/ ~RevokeInProgress /\ \E p \in Procs, u \in Users, t \in Revocable : RevokeGet(p, u, t)
    \/ \E p \in Procs : RevokeDelete(p)

SpecSeqRT == Init /\ [][NextSeqRT]_vars

SpecKS == Init /\ [][NextKS]_vars

\* Sequential histories of the private key set repo: one caller, whose next
\* call starts when the last one has returned.
NextSeqKS ==
    \/ \E r \in Repos, ks \in PrivateKeySets \cup {PublicKeySet} : KeySetDelete(1, r, ks)
    \/ KeySetWrite(1)
    \/ \E r \in Repos : KeyGet(1, r)
    \/ KeyReturn(1)

SpecSeqKS == Init /\ [][NextSeqKS]_vars

SpecSE == Init /\ [][NextSE]_vars

SpecCL == Init /\ [][NextCL]_vars

SpecNK == Init /\ [][NextNK]_vars

\* The user repo exists for MongoDB only.
InitMongo == Init /\ driver = "mongo"
SpecUS == InitMongo /\ [][NextUS]_vars

SpecSeqUS == InitMongo /\ [][NextSeqUS]_vars

SpecSeqUM == InitMongo /\ [][NextSeqUM]_vars

\* Listings with any page size the caller may ask for: the value of the
\* maxResults query parameter goes to List as strconv.Atoi returns it.  A
\* caller follows MaxFollowed tokens at most.
MaxFollowed == 3
NextListUS ==
    \/ \E id \in GivenUserIDs, e \in GivenEmails :
           UserCreateFindId(1, UserValue(id, e))
    \/ UserCreateGetByEmail(1)
    \/ UserCreateInsert(1)
    \/ /\ Len(usListing.pages) <= MaxFollowed
       /\ \E maxResults \in -1..MaxPage, tok \in GivenTokens :
              UserList(1, maxResults, tok)
    \/ UserReturn(1)

SpecListUS == InitMongo /\ [][NextListUS]_vars

InitServer ==
    /\ driver = "mongo"
    /\ clock = ClockStart
    /\ InitSK
    /\ InitNK
    /\ InitRT
    /\ InitKS
    /\ InitSE
    /\ InitCL
    /\ InitAPI
    /\ \E us \in FirstUsers : mongoUsers = newUserRepoFromUsers(us)
    /\ usProc = [p \in Procs |-> IdleUS]
    /\ usRemoved = {}
    /\ usListing = NoListing

SpecAPI == InitServer /\ [][NextAPI]_vars

\* Some caller is between the two backend calls of Pop.
PopInProgress == \E p \in Procs : skProc[p].pc = "write"

\* Concurrent callers of the session-key repo of either backend.
NextSK ==
    \/ \E p \in Procs, k \in Keys : EtcdPopGet(p, k)
    \/ \E p \in Procs : EtcdPopSet(p)
    \/ \E k \in Keys, s \in SessionIDs, e \in TTLs : EtcdPush(k, s, e)
    \/ \E k \in Keys : EtcdExpireSessionKey(k)
    \/ \E p \in Procs, k \in Keys : MongoPopFind(p, k)
    \/ \E p \in Procs : MongoPopUpdate(p)
    \/ \E k \in Keys, s \in SessionIDs, e \in TTLs : MongoPush(k, s, e)
    \/ \E i \in 1..MaxPush : MongoExpireSessionKey(i)
    \/ TickSK

SpecSK == Init /\ [][NextSK]_vars

\* Sequential histories: a call starts only when no Pop is in progress; the
\* clock and the backends' TTL expiry run at any time.
NextSeqSK ==
    \/ ~PopInProgress /\ \E p \in Procs, k \in Keys : EtcdPopGet(p, k)
    \/ \E p \in Procs : EtcdPopSet(p)
    \/ ~PopInProgress /\ \E k \in Keys, s \in SessionIDs, e \in TTLs : EtcdPush(k, s, e)
    \/ \E k \in Keys : EtcdExpireSessionKey(k)
    \/ ~PopInProgress /\ \E p \in Procs, k \in Keys : MongoPopFind(p, k)
    \/ \E p \in Procs : MongoPopUpdate(p)
    \/ ~PopInProgress /\ \E k \in Keys, s \in SessionIDs, e \in TTLs : MongoPush(k, s, e)
    \/ \E i \in 1..MaxPush : MongoExpireSessionKey(i)
    \/ TickSK

SpecSeqSK == Init /\ [][NextSeqSK]_vars

\* Sequential histories in which a key is pushed again: MaxRepush calls of
\* Push at most.
MaxRepush == 2
NextPushSK ==
    \/ ~PopInProgress /\ \E p \in Procs, k \in Keys : EtcdPopGet(p, k)
    \/ \E p \in Procs : EtcdPopSet(p)
    \/ /\ ~PopInProgress /\ PushCount("etcd") < MaxRepush
       /\ \E k \in Keys, s \in SessionIDs, e \in TTLs : EtcdPushSet(k, s, e)
    \/ \E k \in Keys : EtcdExpireSessionKey(k)
    \/ ~PopInProgress /\ \E p \in Procs, k \in Keys : MongoPopFind(p, k)
    \/ \E p \in Procs : MongoPopUpdate(p)
    \/ /\ ~PopInProgress /\ PushCount("mongo") < MaxRepush
       /\ \E k \in Keys, s \in SessionIDs, e \in TTLs : MongoPushInsert(k, s, e)
    \/ \E i \in 1..MaxRepush : MongoExpireSessionKey(i)
    \/ TickSK

SpecPushSK == Init /\ [][NextPushSK]_vars


(***************************************************************************)
(* Claims about session keys.                                              *)
(***************************************************************************)
PopCallers(b, key) == {p \in Procs : skProc[p].b = b /\ skProc[p].key = key}
PopWinners(b, key) == {p \in PopCallers(b, key) : skProc[p].res.ok}
\* The callers that passed the stale/expiry test and went on to the write.
PopWriters(b, key) ==
    {p \in PopCallers(b, key) :
        \/ skProc[p].pc = "write"
        \/ skProc[p].res.ok
        \/ skProc[p].res.err \in {ErrFailedToPop, ErrEtcdKeyNotFound} /\ skProc[p].pre # <<>>}

\* C1: on etcd, among the concurrent Pop calls on a key pushed once there are
\* never two successes, and a success returns the sessionID bound by Push.
C1_EtcdPopSingleWinner ==
    \A k \in Keys :
        skPushed["etcd"][k].n = 1 =>
            /\ Cardinality(PopWinners("etcd", k)) <= 1
            /\ \A p \in PopWinners("etcd", k) :
                   skProc[p].res.val = skPushed["etcd"][k].sid

\* C2: on MongoDB, among the concurrent Pop calls on a key pushed once at most
\* one succeeds, it returns the sessionID bound by Push, and once every caller
\* that found the key fresh has finished (the TTL index not having removed the
\* document) exactly one of them has won; the others failed.
C2_MongoPopSingleWinner ==
    \A k \in Keys :
        skPushed["mongo"][k].n = 1 =>
            /\ Cardinality(PopWinners("mongo", k)) <= 1
            /\ \A p \in PopWinners("mongo", k) :
                   skProc[p].res.val = skPushed["mongo"][k].sid
            /\ ( /\ PopWriters("mongo", k) # {}
                 /\ \A p \in PopWriters("mongo", k) : skProc[p].res.done
                 /\ clock <= skPushed["mongo"][k].exp )
               => Cardinality(PopWinners("mongo", k)) = 1

\* Two callers found the same MongoDB key fresh; one won, the other's
\* conditional update matched nothing.
C2_Witness ==
    \E k \in Keys, p, q \in Procs :
        /\ skPushed["mongo"][k].n = 1
        /\ {p, q} \subseteq PopCallers("mongo", k)
        /\ skProc[p].res.ok
        /\ skProc[q].res.err = ErrFailedToPop
        /\ ~skProc[q].prior

\* C3: in a sequential history in which key k is pushed once, at most one
\* Pop(k) succeeds and every Pop(k) called after a successful one fails, on
\* both backends.
C3_SequentialPopOnce ==
    \A b \in Backends, k \in Keys :
        skPushed[b][k].n = 1 =>
            /\ Cardinality(PopWinners(b, k)) <= 1
            /\ \A p \in PopCallers(b, k) :
                   skProc[p].prior /\ skProc[p].res.done => ~skProc[p].res.ok

\* A Pop of an etcd key succeeded and a later Pop of it was refused.
C3_Witness ==
    \E k \in Keys, p, q \in Procs :
        /\ skPushed["etcd"][k].n = 1
        /\ {p, q} \subseteq PopCallers("etcd", k)
        /\ skProc[p].res.ok
        /\ skProc[q].prior /\ skProc[q].res.done /\ ~skProc[q].res.ok

\* C4: a Pop of a key that was never pushed, is already stale or is called
\* after the expiry fixed at Push fails with "invalid session key" and leaves
\* what is stored unchanged; every other Pop succeeds, returns the sessionID
\* given to Push and leaves the key's record stale.
C4_PopOutcome ==
    \A p \in Procs :
        skProc[p].res.done /\ skProc[p].pushes <= 1 =>
            IF \/ skProc[p].pushes = 0
               \/ skProc[p].prior
               \/ skProc[p].late
            THEN /\ ~skProc[p].res.ok
                 /\ skProc[p].res.err = ErrInvalidSessionKey
                 /\ skProc[p].post = skProc[p].pre
            ELSE /\ skProc[p].res.ok
                 /\ skProc[p].res.val = skProc[p].sid
                 /\ skProc[p].post # <<>>
                 /\ \A i \in 1..Len(skProc[p].post) : skProc[p].post[i].Stale

(***************************************************************************)
(* Claims about refresh tokens.                                            *)
(***************************************************************************)
\* The callers whose Revoke of this issued token, by its owner, loaded the
\* record and went on to the delete.
Revokers(i) ==
    {p \in Procs : /\ rtProc[p].op = "Revoke"
                   /\ rtProc[p].token = rtIssued[i].token
                   /\ rtProc[p].arg = rtIssued[i].user
                   /\ rtProc[p].record # NoRecord}

\* C5: when two Revoke(u, token) calls on the same valid token both load the
\* record before either deletes it, exactly one returns success and the
\* other returns InvalidToken.
C5_RevokeRace ==
    \A i \in 1..Len(rtIssued) :
        \A p, q \in Revokers(i) :
            p # q /\ rtProc[p].res.done /\ rtProc[q].res.done =>
                \/ rtProc[p].res.ok /\ rtProc[q].res.err = ErrorInvalidToken
                \/ rtProc[q].res.ok /\ rtProc[p].res.err = ErrorInvalidToken

(***************************************************************************)
(* Claims about private key sets.                                          *)
(***************************************************************************)
\* C6: a Get that runs while a Set is replacing a stored key set returns the
\* complete old key set or the complete new one, never NoKeys,
\* CannotDecryptKeys or anything else.
C6_GetDuringSet ==
    \A p \in Procs :
        ksProc[p].op = "Get" /\ ksProc[p].racing =>
            /\ ksProc[p].res.ok
            /\ ksProc[p].res.val \in ksProc[p].allowed

(***************************************************************************)
(* Claims about users.                                                     *)
(***************************************************************************)
UserCallsCompleted == \A p \in Procs : usProc[p].pc \in {"idle", "done"}

\* How often a remote identity occurs in a user document.
Occurrences(doc, ri) ==
    LET ris == Field(doc, "remote_identities", <<>>)
    IN Cardinality({i \in 1..Len(ris) : ris[i] = NewRemoteIdentity(ri)})

RECURSIVE TotalOccurrences(_, _)
TotalOccurrences(coll, ri) ==
    IF coll = <<>> THEN 0
    ELSE Occurrences(Head(coll), ri) + TotalOccurrences(Tail(coll), ri)

\* C7: once the concurrent Create and Update calls have completed, no two
\* stored users have the same email.
C7_UniqueEmail ==
    UserCallsCompleted =>
        \A i, j \in 1..Len(mongoUsers) :
            i # j => mongoUsers[i]["email"] # mongoUsers[j]["email"]

\* C8: once the AddRemoteIdentity calls have completed, each remote identity
\* is held by at most one user and appears at most once; an AddRemoteIdentity
\* for an identity some user already holds returns DuplicateRemoteIdentity.
C8_UniqueRemoteIdentity ==
    /\ UserCallsCompleted =>
           \A ri \in RemoteIdentities : TotalOccurrences(mongoUsers, ri) <= 1
    /\ \A p \in Procs :
           usProc[p].op = "AddRemoteIdentity" /\ usProc[p].held =>
               usProc[p].res.err = ErrorDuplicateRemoteIdentity

(***************************************************************************)
(* Claims about sessions.                                                  *)
(***************************************************************************)
\* C9: Update(s') for a stored session succeeds, and a Get before expiry
\* that follows a successful Update(s') returns s' with every field as given.
C9_UpdateReplaces ==
    /\ seLast.op = "Update" /\ seLast.existed => seLast.res.ok
    /\ \A id \in SessionIDs :
           /\ seLast.op = "Get" /\ seLast.id = id
           /\ seWritten[id].op = "Update"
           /\ seLast.now < seWritten[id].s.ExpiresAt
           => seLast.res.ok /\ seLast.res.val = seWritten[id].s

GetOfAbsent(sessionID, now) ==
    IF driver = "etcd" THEN EtcdGetResult(EmptyMap, sessionID, now)
    ELSE MongoGetResult(EmptyMap, sessionID, now)

\* C11: a Get that finds a stored session expired returns what a Get of a
\* never created session ID returns: the same error and no session.
C11_ExpiredAsAbsent ==
    seLast.op = "Get" /\ seLast.existed /\ ~seLast.res.ok =>
        seLast.res = GetOfAbsent(seLast.id, seLast.now)

(***************************************************************************)
(* More claims about refresh tokens.                                       *)
(***************************************************************************)
\* The Verify calls of the token Create returned as rtIssued[i].
VerifiersOf(i) ==
    {p \in Procs : /\ rtProc[p].op = "Verify"
                   /\ rtProc[p].token = rtIssued[i].token}

\* C12: Verify(c, token) with the token Create(u, c) returned, called before
\* any Revoke of it has succeeded, returns u and no error.
C12_CreateVerifyRoundTrip ==
    \A i \in 1..Len(rtIssued) :
        /\ rtIssued[i].user # "" /\ rtIssued[i].client # ""
        /\ \A p \in VerifiersOf(i) :
               rtProc[p].arg = rtIssued[i].client /\ ~rtProc[p].prior =>
                   rtProc[p].res = Ok(rtIssued[i].user)

C12_Witness ==
    \E i \in 1..Len(rtIssued) : \E p \in VerifiersOf(i) :
        /\ rtProc[p].arg = rtIssued[i].client
        /\ ~rtProc[p].prior
        /\ rtProc[p].res.ok

\* The calls of operation op that present the ID of rtIssued[i] with a
\* decodable payload, the issued one or another.
CallsNaming(op, i) ==
    {p \in Procs : /\ rtProc[p].op = op
                   /\ \E x \in Payloads :
                          rtProc[p].token = <<rtIssued[i].token[1], DelimPiece, B64Piece(x)>>}

\* C13: Verify with another clientID than the token was created for, called
\* while the record is stored, returns InvalidClientID and no userID, whether
\* the payload is the issued one or not.
C13_VerifyWrongClient ==
    \A i \in 1..Len(rtIssued) : \A p \in CallsNaming("Verify", i) :
        rtProc[p].arg # rtIssued[i].client /\ ~rtProc[p].prior =>
            rtProc[p].res = Fail(ErrorInvalidClientID)

\* A Verify with the wrong clientID and the wrong payload was refused.
C13_Witness ==
    \E i \in 1..Len(rtIssued) : \E p \in CallsNaming("Verify", i) :
        /\ rtProc[p].arg # rtIssued[i].client
        /\ ~rtProc[p].prior
        /\ rtProc[p].token # rtIssued[i].token
        /\ rtProc[p].res.err = ErrorInvalidClientID

\* The cases of a refused token, read off the token text itself.
NoDelimiter(token) == \A k \in 1..Len(token) : token[k].t # "delim"
IdText(token) == SplitN2(token)[1]
PayloadText(token) == SplitN2(token)[2]
PayloadUndecodable(token) ==
    ~NoDelimiter(token) /\ \E k \in 1..Len(PayloadText(token)) : PayloadText(token)[k].t = "raw"
UnknownIDFormat(token) ==
    ~NoDelimiter(token) /\ ~(Len(IdText(token)) = 1 /\ IdText(token)[1] \in {IdPiece(n) : n \in 1..(MaxTokens + 1)})
NeverIssuedID(token) ==
    /\ ~NoDelimiter(token) /\ ~UnknownIDFormat(token)
    /\ \A i \in 1..Len(rtIssued) : IdText(token) # <<rtIssued[i].token[1]>>
PayloadDiffers(token, clientID) ==
    \E i \in 1..Len(rtIssued) :
        /\ ~NoDelimiter(token) /\ IdText(token) = <<rtIssued[i].token[1]>>
        /\ token # rtIssued[i].token
        /\ clientID = rtIssued[i].client

\* C14: Verify returns InvalidToken, and nothing else, for a token without
\* delimiter, with an undecodable payload, with a token ID of unknown format,
\* with a well-formed token ID that has no record, and with a stored token ID
\* whose payload is not the issued one.
C14_VerifyInvalidToken ==
    \A p \in Procs :
        /\ rtProc[p].op = "Verify"
        /\ \/ NoDelimiter(rtProc[p].token)
           \/ PayloadUndecodable(rtProc[p].token)
           \/ UnknownIDFormat(rtProc[p].token)
           \/ NeverIssuedID(rtProc[p].token)
           \/ PayloadDiffers(rtProc[p].token, rtProc[p].arg)
        => rtProc[p].res = Fail(ErrorInvalidToken)

\* The calls of operation op that present exactly the token rtIssued[i].
CallsWith(op, i) ==
    {p \in Procs : /\ rtProc[p].op = op /\ rtProc[p].res.done
                   /\ rtProc[p].token = rtIssued[i].token}

\* C15: in a sequential history the first Revoke(u, token) of a token created
\* for u succeeds and the record is gone; every Revoke(u, token) and every
\* Verify of that token called after it returns InvalidToken.
C15_RevokeOnce ==
    \A i \in 1..Len(rtIssued) :
        /\ \A p \in CallsWith("Revoke", i) :
               rtProc[p].arg = rtIssued[i].user =>
                   IF rtProc[p].prior
                   THEN rtProc[p].res = Fail(ErrorInvalidToken)
                   ELSE /\ rtProc[p].res = Ok("")
                        /\ rtIssued[i].token[1].v \notin DOMAIN refreshTokens
        /\ \A p \in CallsWith("Verify", i) :
               rtProc[p].prior => rtProc[p].res = Fail(ErrorInvalidToken)

\* A token was revoked by its owner, and a second Revoke of it was refused.
C15_Witness ==
    \E i \in 1..Len(rtIssued) : \E p, q \in CallsWith("Revoke", i) :
        /\ rtProc[p].arg = rtIssued[i].user /\ ~rtProc[p].prior /\ rtProc[p].res.ok
        /\ rtProc[q].arg = rtIssued[i].user /\ rtProc[q].prior
        /\ rtProc[q].res.err = ErrorInvalidToken

\* The step in which caller p starts a Revoke of the stored rtIssued[i] with
\* a decodable payload and another userID than the owner's.
RevokeByWrongUser(p, i) ==
    /\ rtProc[p].pc = "idle"
    /\ rtProc'[p].op = "Revoke"
    /\ rtProc'[p].token[1] = rtIssued[i].token[1]
    /\ rtProc'[p].token[2] = DelimPiece
    /\ rtProc'[p].token[3].t = "b64"
    /\ rtProc'[p].arg # rtIssued[i].user
    /\ rtIssued[i].token[1].v \in DOMAIN refreshTokens

\* C16: a Revoke whose userID differs from the one the named token was created
\* for returns InvalidUserID in its one step and leaves the record where it
\* is: Verify of the issued token with the right clientID still returns the
\* userID the token was created for.
C16_RevokeWrongUser ==
    [][\A p \in Procs : \A i \in 1..Len(rtIssued) :
          RevokeByWrongUser(p, i) =>
              /\ rtProc'[p].pc = "done"
              /\ rtProc'[p].res = Fail(ErrorInvalidUserID)
              /\ <<refreshTokens, rtIssued>>' = <<refreshTokens, rtIssued>>
              /\ VerifyResult(rtIssued[i].client, rtIssued[i].token) = Ok(rtIssued[i].user)]_vars

\* A Revoke by another user was refused, the record is stored, and a Verify
\* called after it returned the owner.
C16_Witness ==
    \E i \in 1..Len(rtIssued) : \E p, q \in Procs :
        /\ rtProc[p].op = "Revoke"
        /\ rtProc[p].token = rtIssued[i].token
        /\ rtProc[p].arg # rtIssued[i].user
        /\ rtProc[p].res.err = ErrorInvalidUserID
        /\ rtIssued[i].token[1].v \in DOMAIN refreshTokens
        /\ p < q
        /\ rtProc[q].op = "Verify"
        /\ rtProc[q].token = rtIssued[i].token
        /\ rtProc[q].res = Ok(rtIssued[i].user)

\* The step in which caller p calls Verify.
VerifyStep(p) == rtProc[p].pc = "idle" /\ rtProc'[p].op = "Verify"

\* C17: a Verify step, whatever it returns, leaves the stored records, the
\* ID counter and the directory as they are: all that a later Verify or
\* Revoke reads is what it would have been without the step, and so is its
\* result.
C17_VerifyReadOnly ==
    [][\A p \in Procs :
          VerifyStep(p) =>
              /\ refreshTokens' = refreshTokens
              /\ objectIdCounter' = objectIdCounter
              /\ EtcdRefreshDirectoryExists' = EtcdRefreshDirectoryExists]_vars

\* A successful and a refused Verify of a stored token took place, and the
\* record is still stored.
C17_Witness ==
    \E i \in 1..Len(rtIssued) : \E p, q \in Procs :
        /\ rtProc[p].op = "Verify" /\ rtProc[p].token = rtIssued[i].token
        /\ rtProc[p].res = Ok(rtIssued[i].user)
        /\ rtProc[q].op = "Verify" /\ rtProc[q].token[1] = rtIssued[i].token[1]
        /\ rtProc[q].res.done /\ ~rtProc[q].res.ok
        /\ rtIssued[i].token[1].v \in DOMAIN refreshTokens

\* C18: a Create whose insert the backend failed returns a non-nil error;
\* no Create returns a nil error with an empty token or with a token whose
\* record was not stored.
C18_CreateSurfacesFailure ==
    rtLastCreate.called =>
        /\ ~rtLastCreate.stored => rtLastCreate.err # ""
        /\ rtLastCreate.err = "" => rtLastCreate.token # <<>> /\ rtLastCreate.stored

(***************************************************************************)
(* Claims about client identities.                                         *)
(***************************************************************************)
\* The last call was an Authenticate whose secret decodes to more than
\* maxSecretLength bytes.
LongSecretPresented ==
    /\ clLast.called
    /\ Len(clLast.creds.Secret) = 1
    /\ clLast.creds.Secret[1].t = "b64"
    /\ clLast.creds.Secret[1].v.len > maxSecretLength

\* C19: Authenticate with a secret that decodes to more than 72 bytes returns
\* (false, nil) for every client ID, also when the first 72 bytes are the
\* client's secret.
C19_LongSecretFailsClosed ==
    LongSecretPresented => ~clLast.ok /\ clLast.err = ""

\* C20: Authenticate(id, s) returns (true, nil) when id is registered and s
\* is the secret New returned for it, and (false, nil) for any other secret,
\* an undecodable secret and an unregistered ID.
C20_AuthenticateExact ==
    clLast.called =>
        /\ clLast.err = ""
        /\ clLast.ok <=> (clLast.issued # <<>> /\ clLast.creds.Secret = clLast.issued)

\* The step in which SetDexAdmin is called for the registered client id.
SetDexAdminStep(id) ==
    /\ id \in DOMAIN clIssued
    /\ clLast' # clLast
    /\ clLast'.op = "SetDexAdmin"
    /\ clLast'.creds.ID = id

\* C21: SetDexAdmin on a registered client leaves its stored secret hash and
\* metadata as they were: Authenticate with the credentials New returned and
\* Metadata return after the call what they returned before it.
C21_SetDexAdminOnlyFlag ==
    [][\A id \in NewClientIDs :
          SetDexAdminStep(id) =>
              /\ clientIdentities'[id].Secret = clientIdentities[id].Secret
              /\ clientIdentities'[id].Metadata = clientIdentities[id].Metadata
              /\ AuthenticateResult(clIssued[id])' = AuthenticateResult(clIssued[id])
              /\ MetadataResult(id)' = MetadataResult(id)]_vars

\* C22: once SetDexAdmin(id, b) has succeeded for a registered client,
\* IsDexAdmin(id) returns (b, nil) in every state up to the next SetDexAdmin
\* of that id, whatever is done to other clients.
C22_IsDexAdminLastSet ==
    \A id \in DOMAIN clAdminSet \cap DOMAIN clIssued :
        IsDexAdminResult(id) = [ok |-> clAdminSet[id], err |-> ""]

\* IsDexAdmin returned true for a registered client whose flag was set, while
\* the flag of another registered client was last set to false.
C22_Witness ==
    /\ clLast.op = "IsDexAdmin" /\ clLast.ok /\ clLast.err = ""
    /\ clLast.creds.ID \in DOMAIN clAdminSet \cap DOMAIN clIssued
    /\ clAdminSet[clLast.creds.ID]
    /\ \E other \in (DOMAIN clAdminSet \cap DOMAIN clIssued) \ {clLast.creds.ID} :
           ~clAdminSet[other]

\* The step in which New is called with an ID that is registered.
NewOfRegisteredStep(id) ==
    /\ id \in DOMAIN clientIdentities
    /\ clLast' # clLast
    /\ clLast'.op = "New"
    /\ clLast'.creds.ID = id

\* C23: New with a registered ID returns an error and leaves every record as
\* it was, so the credentials of the existing client authenticate as before
\* and each ID still names one record, its own.
C23_NewDuplicateRefused ==
    [][\A id \in NewClientIDs :
          NewOfRegisteredStep(id) =>
              /\ clLast'.err # ""
              /\ clientIdentities' = clientIdentities
              /\ AuthenticateResult(clIssued[id])' = AuthenticateResult(clIssued[id])
              /\ \A i \in DOMAIN clientIdentities' : clientIdentities'[i].ID = i]_vars

\* A New with a registered ID was refused, and the credentials first
\* returned for the ID authenticate.
C23_Witness ==
    /\ clLast.op = "New" /\ clLast.err # ""
    /\ clLast.creds.ID \in DOMAIN clIssued
    /\ AuthenticateResult(clIssued[clLast.creds.ID]) = [ok |-> TRUE, err |-> ""]

(***************************************************************************)
(* Claims about private key sets in sequential histories.                  *)
(***************************************************************************)
\* The Get calls that returned and were called when the last Set to return
\* had succeeded, in the format of the Get's repo.
GetsAfterSet ==
    {p \in Procs : /\ ksProc[p].op = "Get" /\ ksProc[p].res.done
                   /\ ksProc[p].last.ok
                   /\ UsesOldFormat(ksProc[p].last.repo) = UsesOldFormat(ksProc[p].repo)}

\* The secrets of a repo, as a set.
SecretsOf(r) == {r.secrets[i] : i \in 1..Len(r.secrets)}

\* C24: a key set stored by Set under its active secret is returned as it
\* was given by a Get whose repo has that secret anywhere in its list (A
\* read with [B, A]), and a Get whose repo has not got it (A read with [C])
\* returns CannotDecryptKeys.
C24_KeyRotation ==
    \A p \in GetsAfterSet :
        IF ksProc[p].last.repo.secrets[1] \in SecretsOf(ksProc[p].repo)
        THEN /\ ksProc[p].res.ok
             /\ ksProc[p].res.val = ksProc[p].last.ks
        ELSE ksProc[p].res = KsFail(ErrorCannotDecryptKeys)

\* A key set stored under A was returned by a Get with the secrets [B, A].
C24_Witness ==
    \E p \in GetsAfterSet :
        /\ ksProc[p].last.repo.secrets = <<"A">>
        /\ ksProc[p].repo.secrets = <<"B", "A">>
        /\ ksProc[p].res.ok
        /\ ksProc[p].res.val = ksProc[p].last.ks
        /\ ksProc[p].res.val # NoKeySet

\* C25: when a Set has succeeded and no other is under way, the store holds
\* one blob, that of the last Set, which its repo reads back as exactly the
\* key set given, whatever was stored before; a Get on a store no Set was
\* ever called on returns NoKeys.
C25_SetReplaces ==
    /\ ksLastSet.ok /\ ksProc[1].pc # "write" =>
           /\ Len(keyBlobs) = 1
           /\ DecryptKeySet(ksLastSet.repo, keyBlobs[1]).ok
           /\ DecryptKeySet(ksLastSet.repo, keyBlobs[1]).val = ksLastSet.ks
           /\ ksProc[1].op = "Get" /\ ksProc[1].repo = ksLastSet.repo =>
                  ksProc[1].res.val = ksLastSet.ks
    /\ \A p \in Procs :
           ksProc[p].op = "Get" /\ ~ksProc[p].last.called =>
               ksProc[p].res = KsFail(ErrorNoKeys)

\* Set(k1) and then Set(k2) succeeded, k2 another key set than k1, and a Get
\* returned k2.
C25_Witness ==
    /\ ksLastSet.ok
    /\ ksLastSet.prev # NoKeySet /\ ksLastSet.prev # ksLastSet.ks
    /\ ksProc[1].op = "Get" /\ ksProc[1].res.ok
    /\ ksProc[1].res.val = ksLastSet.ks

\* The step in which a Set call returns an error.
SetFails(p) ==
    /\ ksProc[p].pc \in {"idle", "write"}
    /\ ksProc'[p].op = "Set"
    /\ ksProc'[p].pc = "done"
    /\ ~ksProc'[p].res.ok

\* C26: a Set that returns an error leaves the store as it was before the
\* call: the key set stored before is still there.
C26_FailedSetKeepsStore ==
    [][\A p \in Procs : SetFails(p) => keyBlobs' = keyBlobs]_vars

\* C27: NewPrivateKeySetRepo returns an error when a secret given is not
\* exactly 32 bytes long, and when no secret is given at all; the repo it
\* returns has at least one secret, each of 32 bytes.
C27_NewRepoChecksSecrets ==
    nkLast.called =>
        /\ Len(nkLast.secrets) = 0 \/ BadSecrets(nkLast.secrets) # {} =>
               ~nkLast.res.ok /\ nkLast.res.err # ""
        /\ nkLast.res.ok =>
               /\ Len(nkLast.res.repo.secrets) >= 1
               /\ BadSecrets(nkLast.res.repo.secrets) = {}

(***************************************************************************)
(* Claims about users in sequential histories.                             *)
(***************************************************************************)
EmailHeld(email) == UserByEmail(mongoUsers, email) # {}
NewIDGiven(usr) == usr.ID # "" /\ UserByID(mongoUsers, usr.ID) = {}

\* A step of a Create call of a user with an ID no stored user has and the
\* email of a stored user.
CreateOfHeldEmail ==
    /\ usProc'[1].op = "Create"
    /\ NewIDGiven(usProc'[1].usr)
    /\ EmailHeld(usProc'[1].usr.Email)

\* C28: a Create of a user whose email is that of a stored user, with an ID
\* of its own, changes nothing in the store at any of its steps and returns
\* DuplicateEmail.
C28_DuplicateEmailRefused ==
    [][CreateOfHeldEmail =>
          /\ mongoUsers' = mongoUsers
          /\ usProc'[1].pc \in {"create-email", "done"}
          /\ usProc[1].pc = "create-email" => usProc'[1].pc = "done"
          /\ usProc'[1].pc = "done" => usProc'[1].res = Fail(ErrorDuplicateEmail)]_vars

\* The second of two Creates with one email has returned DuplicateEmail and
\* the first user is the only one stored.
C28_Witness ==
    /\ usProc[1].op = "Create" /\ usProc[1].pc = "done"
    /\ usProc[1].res = Fail(ErrorDuplicateEmail)
    /\ Len(mongoUsers) = 1
    /\ mongoUsers[1]["_id"] # usProc[1].usr.ID
    /\ mongoUsers[1]["email"] = usProc[1].usr.Email

\* userID holds rid.
HoldsRemoteIdentity(userID, rid) ==
    \E i \in UserByRemoteIdentity(mongoUsers, rid) : mongoUsers[i]["_id"] = userID

\* The step leaves every user with the remote identities other than rid
\* that it had.
OthersRemain(rid) ==
    /\ Len(mongoUsers') = Len(mongoUsers)
    /\ \A i \in 1..Len(mongoUsers) :
           /\ mongoUsers'[i]["_id"] = mongoUsers[i]["_id"]
           /\ \A ri \in RemoteIdentities \ {rid} :
                  Occurrences(mongoUsers'[i], ri) = Occurrences(mongoUsers[i], ri)

\* The steps of a RemoveRemoteIdentity call by the holder of the identity,
\* and a GetByRemoteIdentity for an identity removed.
RemoveByHolder(userID, rid) ==
    /\ usProc[1].pc = "idle" =>
           usProc'[1].pc = "remove-pull" /\ mongoUsers' = mongoUsers
    /\ usProc[1].pc = "remove-pull" =>
           /\ usProc'[1].pc = "done" /\ usProc'[1].res.ok
           /\ UserByRemoteIdentity(mongoUsers', rid) = {}
           /\ OthersRemain(rid)
GetOfRemoved ==
    usProc'[1].op = "GetByRemoteIdentity" /\ usProc'[1].ri \in usRemoved =>
        usProc'[1].res = Fail(ErrorNotFound)

\* C29, as stated: RemoveRemoteIdentity(userID, rid) returns NotFound and
\* removes nothing whenever userID does not hold rid.
C29_RemoveAsStated ==
    [][/\ usProc'[1].op = "RemoveRemoteIdentity" =>
              LET userID == usProc'[1].usr.ID
                  rid == usProc'[1].ri
              IN IF HoldsRemoteIdentity(userID, rid)
                 THEN RemoveByHolder(userID, rid)
                 ELSE /\ usProc'[1].pc = "done"
                      /\ usProc'[1].res = Fail(ErrorNotFound)
                      /\ mongoUsers' = mongoUsers
       /\ GetOfRemoved]_vars

\* C29, amended: RemoveRemoteIdentity(userID, rid) removes nothing when userID does
\* not hold rid, and returns InvalidID when userID, rid.ID or rid.ConnectorID
\* is empty and NotFound otherwise; when userID holds rid it succeeds, rid is
\* then held by nobody, a GetByRemoteIdentity(rid) after it returns NotFound,
\* and the other remote identities of the users remain.
C29_RemoveRemoteIdentity ==
    [][/\ usProc'[1].op = "RemoveRemoteIdentity" =>
              LET userID == usProc'[1].usr.ID
                  rid == usProc'[1].ri
              IN IF HoldsRemoteIdentity(userID, rid)
                 THEN RemoveByHolder(userID, rid)
                 ELSE /\ usProc'[1].pc = "done"
                      /\ usProc'[1].res =
                             IF userID = "" \/ rid.ID = "" \/ rid.ConnectorID = ""
                             THEN Fail(ErrorInvalidID)
                             ELSE Fail(ErrorNotFound)
                      /\ mongoUsers' = mongoUsers
       /\ GetOfRemoved]_vars

\* A user who held two remote identities has removed one and holds the other.
C29_Witness ==
    /\ usProc[1].op = "RemoveRemoteIdentity" /\ usProc[1].pc = "done"
    /\ usProc[1].res.ok
    /\ usProc[1].ri \in usRemoved
    /\ \E i \in 1..Len(mongoUsers) :
           /\ mongoUsers[i]["_id"] = usProc[1].usr.ID
           /\ Len(Field(mongoUsers[i], "remote_identities", <<>>)) = 1
           /\ Occurrences(mongoUsers[i], usProc[1].ri) = 0

RECURSIVE Flatten(_)
Flatten(pages) == IF pages = <<>> THEN <<>> ELSE Head(pages) \o Flatten(Tail(pages))

StoredIDs == [i \in 1..Len(mongoUsers) |-> mongoUsers[i]["_id"]]

\* The pages of the listing so far: pages of m users each and a token while
\* more users remain, then the page of the remaining users and no token;
\* together the pages are the stored users, each once.
PagesAsStated ==
    LET m == usListing.m
        k == Len(usListing.pages)
        N == Len(mongoUsers)
    IN /\ usListing.err = ""
       /\ k >= 1
       /\ \A i \in 1..(k - 1) : Len(usListing.pages[i]) = m
       /\ usListing.tok # EmptyToken <=> k * m < N
       /\ usListing.tok # EmptyToken => Len(usListing.pages[k]) = m
       /\ Flatten(usListing.pages) = SubSeq(StoredIDs, 1, Min(k * m, N))

\* C30, as stated: a listing of any number of stored users, none included,
\* is made of such pages.
C30_ListAsStated == usListing.live => PagesAsStated

\* C30, amended: with one stored user or more and no write in between, List and its
\* resumes yield pages of exactly m users and a token while more remain, then
\* the remaining users and an empty token, every user in exactly one page;
\* with no stored user List returns NotFound, no page and no token.
C30_ListPagination ==
    usListing.live =>
        IF Len(mongoUsers) = 0
        THEN /\ usListing.err = ErrorNotFound
             /\ usListing.pages = <<>>
             /\ usListing.tok = EmptyToken
        ELSE PagesAsStated

\* Three users listed in pages of two: a page of two, then a page of one.
C30_Witness ==
    /\ usListing.live /\ usListing.m = 2
    /\ Len(mongoUsers) = 3
    /\ Len(usListing.pages) = 2
    /\ Len(usListing.pages[1]) = 2 /\ Len(usListing.pages[2]) = 1
    /\ usListing.tok = EmptyToken

(***************************************************************************)
(* Claims about the maintenance of users.                                  *)
(***************************************************************************)
\* What a stored user is made of, the disabled flag left out.
ButDisabled(doc) ==
    [user |-> [UserOf(doc) EXCEPT !.Disabled = FALSE],
     remoteIdentities |-> Field(doc, "remote_identities", <<>>)]

\* The step of a Disable call for a stored user.
DisableOfStored ==
    /\ usProc'[1].op = "Disable"
    /\ UserByID(mongoUsers, usProc'[1].usr.ID) # {}

\* C31: Disable(id, b) of a stored user sets that user's disabled flag to b
\* and changes nothing else: every user's email, emailVerified, display name,
\* admin flag, createdAt and remote identities are as before, and so are the
\* answers of GetByEmail, GetByRemoteIdentity and GetAdminCount.
C31_DisableOnlyFlag ==
    [][DisableOfStored =>
          /\ Len(mongoUsers') = Len(mongoUsers)
          /\ \A i \in 1..Len(mongoUsers) :
                 /\ ButDisabled(mongoUsers'[i]) = ButDisabled(mongoUsers[i])
                 /\ mongoUsers[i]["_id"] = usProc'[1].usr.ID =>
                        UserOf(mongoUsers'[i]).Disabled = usProc'[1].usr.Disabled
          /\ \A email \in MaintainedEmails :
                 UserByEmail(mongoUsers', email) = UserByEmail(mongoUsers, email)
          /\ \A ri \in RemoteIdentities :
                 UserByRemoteIdentity(mongoUsers', ri) = UserByRemoteIdentity(mongoUsers, ri)
          /\ GetAdminCount(mongoUsers') = GetAdminCount(mongoUsers)]_vars

\* The write of an Update call.
UpdateWritten ==
    /\ usProc[1].pc = "update-write"
    /\ usProc'[1].op = "Update" /\ usProc'[1].res.ok

\* C34: an Update of a stored user leaves the remote identities as they
\* were: GetByRemoteIdentity finds for every remote identity the user it
\* found before.
C34_UpdateKeepsRemoteIdentities ==
    [][UpdateWritten =>
          \A ri \in RemoteIdentities :
              UserByRemoteIdentity(mongoUsers', ri) = UserByRemoteIdentity(mongoUsers, ri)]_vars

\* A user with u.ID is stored; a user with another ID has u.Email; the user
\* with u.ID has u.Email.
StoredUser(u) == UserByID(mongoUsers, u.ID) # {}
OtherHolds(u) ==
    \E i \in 1..Len(mongoUsers) :
        /\ Field(mongoUsers[i], "email", "") = u.Email
        /\ mongoUsers[i]["_id"] # u.ID
OwnEmail(u) ==
    \E i \in UserByID(mongoUsers, u.ID) : Field(mongoUsers[i], "email", "") = u.Email

\* C35: an Update(u) with a user ID and a valid email returns NotFound when
\* no user with u.ID is stored, returns DuplicateEmail only when a user with
\* another ID has u.Email, and succeeds when the stored user has u.Email
\* already; an Update that returns an error, InvalidID and InvalidEmail
\* included, has changed nothing in the store at any of its steps.
C35_UpdateErrors ==
    [][usProc'[1].op = "Update" =>
          LET u == usProc'[1].usr
              res == usProc'[1].res
              valid == u.ID # "" /\ ValidEmail(u.Email)
          IN IF usProc'[1].pc # "done"
             THEN mongoUsers' = mongoUsers
             ELSE /\ ~res.ok => mongoUsers' = mongoUsers
                  /\ u.ID = "" => res = Fail(ErrorInvalidID)
                  /\ u.ID # "" /\ ~ValidEmail(u.Email) => res = Fail(ErrorInvalidEmail)
                  /\ valid /\ ~StoredUser(u) => res = Fail(ErrorNotFound)
                  /\ res = Fail(ErrorDuplicateEmail) => OtherHolds(u)
                  /\ valid /\ StoredUser(u) /\ ~OtherHolds(u) => res.ok
                  /\ valid /\ OwnEmail(u) => res.ok]_vars

\* An Update of one of two stored users, with the email that user has, has
\* succeeded.
C35_Witness ==
    /\ usProc[1].op = "Update" /\ usProc[1].pc = "done" /\ usProc[1].res.ok
    /\ Len(mongoUsers) = 2
    /\ OwnEmail(usProc[1].usr)
    /\ \E i \in 1..2 : /\ mongoUsers[i]["_id"] # usProc[1].usr.ID
                       /\ "email" \in DOMAIN mongoUsers[i]

(***************************************************************************)
(* Claims about the admin flag of clients.                                 *)
(***************************************************************************)
\* C36: a SetDexAdmin for an ID that is no registered client fails and
\* records nothing, so that IsDexAdmin returns true for registered clients
\* only, and a client is not admin before a SetDexAdmin made after New.
C36_AdminOnlyRegistered ==
    /\ clLast.op = "SetDexAdmin" /\ clLast.creds.ID \notin DOMAIN clientIdentities =>
           ~clLast.ok
    /\ \A id \in NewClientIDs :
           IsDexAdminResult(id).ok => id \in DOMAIN clientIdentities
    /\ DOMAIN etcdAdminKeys \subseteq DOMAIN clientIdentities

\* C37: for a client registered by New whose admin flag no SetDexAdmin has
\* set, IsDexAdmin returns (false, nil) on both backends.
C37_IsDexAdminDefault ==
    \A id \in DOMAIN clIssued \ DOMAIN clAdminSet :
        IsDexAdminResult(id) = [ok |-> FALSE, err |-> ""]

(***************************************************************************)
(* Claims about session keys pushed again.                                 *)
(***************************************************************************)
\* The records the backend holds for a key.
RecordsOf(k) ==
    IF driver = "etcd"
    THEN IF k \in DOMAIN etcdSessionKeys THEN 1 ELSE 0
    ELSE Cardinality(SessionKeyByKey(mongoSessionKeys, k))

\* C38: a Push of a key for which a record exists, fresh or stale, creates
\* no second record: the store holds at most one record per key.
C38_OneRecordPerKey == \A k \in Keys : RecordsOf(k) <= 1

(***************************************************************************)
(* Claims about listings with any page size.                               *)
(***************************************************************************)
\* C39: for every maxResults, zero and negative values included, a token
\* that List returns names an offset strictly larger than the offset the
\* call read from, so that following the tokens over unchanging users ends
\* with an empty token or NotFound.
C39_ListAdvances ==
    usListing.live /\ usListing.tok # EmptyToken =>
        usListing.tok.offset > usListing.offset

(***************************************************************************)
(* Claims about concurrent Sets of the key set.                            *)
(***************************************************************************)
\* C40: on MongoDB, once every Set in progress has completed and the one
\* that wrote last succeeded, the store holds exactly one blob, and what Get
\* reads (the first blob) is the key set of that last write.
C40_OneBlobAfterSets ==
    /\ driver = "mongo"
    /\ ksLastSet.ok
    /\ \A p \in Procs : ksProc[p].pc # "write"
    => /\ Len(keyBlobs) = 1
       /\ DecryptKeySet(ksLastSet.repo, keyBlobs[1]).ok
       /\ DecryptKeySet(ksLastSet.repo, keyBlobs[1]).val = ksLastSet.ks

(***************************************************************************)
(* Claims about the user management server.                                *)
(***************************************************************************)
\* The step of a request.
RequestStep == apiLast' # apiLast

\* The disabled flag of every stored user stays.
FlagsStay ==
    /\ Len(mongoUsers') = Len(mongoUsers)
    /\ \A i \in 1..Len(mongoUsers) :
          Field(mongoUsers'[i], "disabled", FALSE) = Field(mongoUsers[i], "disabled", FALSE)

\* C32: a handler runs only for a request whose bearer token was extracted,
\* parsed and verified for its aud client, whose sub user is stored and for
\* whose aud client IsDexAdmin returns (true, nil); every other request gets
\* one error response, no API call is made for it and the users stay.
C32_HandlerOnlyForAdmins ==
    apiLast.called =>
        LET t == apiLast.req.token
        IN /\ apiLast.handled <=> apiLast.err = ""
           /\ apiLast.handled =>
                 /\ t.bearer /\ t.parses /\ t.claims /\ t.verifies
                 /\ t.aud.str /\ t.aud.val # ""
                 /\ t.sub.str /\ apiLast.subStored
                 /\ apiLast.creds.ClientID = t.aud.val
                 /\ apiLast.creds.User.ID = t.sub.val
                 /\ apiLast.isAdmin = [ok |-> TRUE, err |-> ""]
           /\ ~apiLast.handled =>
                 /\ Len(apiLast.responses) = 1
                 /\ apiLast.responses[1] \in ApiErrors \cup {errorServerError}
                 /\ apiLast.calls = <<>>
                 /\ ~apiLast.wrote

C32_Witness ==
    /\ apiLast.called /\ apiLast.handled
    /\ apiLast.handle = "disableUser"
    /\ apiLast.calls # <<>>
    /\ apiLast.responses = <<StatusOK>>

\* C33: disableUser calls the DisableUser API only for a body that parsed: a
\* request with a body that does not parse gets the one invalid-request
\* response, and no user's disabled flag changes.
C33_DisableOnlyParsed ==
    [][/\ RequestStep
       /\ apiLast'.handle = "disableUser"
       /\ apiLast'.handled
       /\ ~apiLast'.req.body.json
       => /\ apiLast'.responses = <<errorInvalidRequest>>
          /\ apiLast'.calls = <<>>
          /\ FlagsStay]_vars

=============================================================================
